---- MODULE Spec2Model ----
(***************************************************************************)
(* Model of wasilak/otelgo: the TLS configuration type (internal           *)
(* package), and the Init functions of the logs, metrics and tracing       *)
(* packages that validate it, materialise it and register a provider.      *)
(***************************************************************************)
EXTENDS Integers, Sequences, FiniteSets, TLC

VARIABLES
    tc,            \* TLS unit: the *TLSConfig under examination
    vres,          \* TLS unit: result of the last Validate() on tc
    bres,          \* TLS unit: result of the last BuildTLSConfig() on tc
    iolog,         \* TLS unit: file operations performed so far
    env,           \* process environment, as seen by os.Getenv
    defaultConfig, \* package-level defaultConfig of each signal package
    global,        \* per-signal process-wide provider slot (otel globals)
    call,          \* the most recent Init invocation and what it returned
    nInits,        \* number of Init invocations so far
    procs,         \* goroutines calling Init concurrently: where each one is
    regLog,        \* goroutines in the order their Init wrote the global slot
    sub,           \* the most recent direct run of a tracing metrics pipeline
    builder,       \* the fluent builder under construction
    val            \* the most recent ConfigValidator check and its result

vars == <<tc, vres, bres, iolog, env, defaultConfig, global, call, nInits,
          procs, regLog, sub, builder, val>>

tlsVars == <<tc, vres, bres, iolog>>
initVars == <<env, defaultConfig, global, call, nInits>>
concVars == <<procs, regLog>>
unitVars == <<builder, val>>

(***************************************************************************)
(* Bounds                                                                  *)
(***************************************************************************)
MaxInits == 2

(***************************************************************************)
(* Errors.  A Go error built with fmt.Errorf("msg: %w", err) is the chain  *)
(* of messages from the outermost wrapper to the root cause; nil is the    *)
(* empty chain.                                                            *)
(***************************************************************************)
NilErr == <<>>

Errorf(msg) == <<msg>>

Wrap(msg, err) == <<msg>> \o err

(***************************************************************************)
(* The file system seen by os.ReadFile and tls.LoadX509KeyPair.            *)
(***************************************************************************)
Paths == {"", "ca.pem", "missing.pem", "bad.pem", "cert.pem", "key.pem", "other.key"}

ServerNames == {"", "example.com"}

FileSystem ==
    [p \in Paths \ {""} |->
        CASE p = "ca.pem"      -> [exists |-> TRUE,  pem |-> "CERTIFICATE", id |-> "ca"]
          [] p = "cert.pem"    -> [exists |-> TRUE,  pem |-> "CERTIFICATE", id |-> "client"]
          [] p = "key.pem"     -> [exists |-> TRUE,  pem |-> "PRIVATE KEY", id |-> "client"]
          [] p = "other.key"   -> [exists |-> TRUE,  pem |-> "PRIVATE KEY", id |-> "other"]
          [] p = "bad.pem"     -> [exists |-> TRUE,  pem |-> "none",        id |-> "none"]
          [] p = "missing.pem" -> [exists |-> FALSE, pem |-> "none",        id |-> "none"]]

\* os.ReadFile: an error when the file does not exist (the empty path never does)
ReadFile(p) ==
    IF p # "" /\ FileSystem[p].exists
    THEN [data |-> FileSystem[p], err |-> NilErr]
    ELSE [data |-> [exists |-> FALSE, pem |-> "none", id |-> "none"],
          err |-> Errorf("open: no such file or directory")]

\* x509.CertPool.AppendCertsFromPEM: the certificates found in the PEM data
AppendCertsFromPEM(data) ==
    IF data.pem = "CERTIFICATE" THEN {data.id} ELSE {}

\* tls.X509KeyPair on what was read from the two files
X509KeyPair(c, k) ==
    IF c.err # NilErr THEN [cert |-> "none", err |-> c.err]
    ELSE IF k.err # NilErr THEN [cert |-> "none", err |-> k.err]
    ELSE IF c.data.pem # "CERTIFICATE"
         THEN [cert |-> "none", err |-> Errorf("tls: failed to find any PEM data in certificate input")]
    ELSE IF k.data.pem # "PRIVATE KEY"
         THEN [cert |-> "none", err |-> Errorf("tls: failed to find any PEM data in key input")]
    ELSE IF c.data.id # k.data.id
         THEN [cert |-> "none", err |-> Errorf("tls: private key does not match public key")]
    ELSE [cert |-> c.data.id, err |-> NilErr]

\* tls.LoadX509KeyPair: both files readable, a certificate, a key, and matching
LoadX509KeyPair(certFile, keyFile) == X509KeyPair(ReadFile(certFile), ReadFile(keyFile))

(***************************************************************************)
(* internal.TLSConfig                                                      *)
(***************************************************************************)
TLSConfig ==
    [Insecure : BOOLEAN, CACertPath : Paths, ClientCertPath : Paths,
     ClientKeyPath : Paths, ServerName : ServerNames]

\* a nil *TLSConfig
NilTLS == [nil |-> TRUE]

\* a nil *tls.Config
NilTLSConfig == [nil |-> TRUE]

\* tls.Config.RootCAs == nil: the host's root CA set is used
SystemRoots == {"<host root CA set>"}

ErrConflicting == Errorf("cannot specify both Insecure=true and CACertPath")

ErrIncomplete == Errorf("both ClientCertPath and ClientKeyPath must be specified")

\* mutant: the client-identity check placed before the conflict check
Validate_PairFirst(c) ==
    IF (c.ClientCertPath # "") # (c.ClientKeyPath # "")
    THEN ErrIncomplete
    ELSE IF c.Insecure /\ c.CACertPath # ""
         THEN ErrConflicting
         ELSE NilErr

\* mutant: only a certificate without a key counts as incomplete
Validate_CertOnly(c) ==
    IF c.Insecure /\ c.CACertPath # ""
    THEN ErrConflicting
    ELSE IF c.ClientCertPath # "" /\ c.ClientKeyPath = ""
         THEN ErrIncomplete
         ELSE NilErr

\* mutant: || in place of && in the conflict check
Validate_OrConflict(c) ==
    IF c.Insecure \/ c.CACertPath # ""
    THEN ErrConflicting
    ELSE IF (c.ClientCertPath # "") # (c.ClientKeyPath # "")
         THEN ErrIncomplete
         ELSE NilErr

Validate(c) ==
    IF c.Insecure /\ c.CACertPath # ""
    THEN ErrConflicting
    ELSE IF (c.ClientCertPath # "") # (c.ClientKeyPath # "")
         THEN ErrIncomplete
         ELSE NilErr

\* mutant: the InsecureSkipVerify: true that earlier releases hard-coded
NewTLSBase_Hardcoded(c) ==
    [InsecureSkipVerify |-> TRUE, ServerName |-> c.ServerName]

\* mutant: the Insecure field not carried over
NewTLSBase_NeverInsecure(c) ==
    [InsecureSkipVerify |-> FALSE, ServerName |-> c.ServerName]

\* BuildTLSConfig, the tls.Config literal it starts from
NewTLSBase(c) ==
    [InsecureSkipVerify |-> c.Insecure, ServerName |-> c.ServerName]

\* mutant: the result of AppendCertsFromPEM not checked
LoadCA_IgnoreParse(c) ==
    LET Block(ca) ==
            IF c.CACertPath = ""
            THEN [roots |-> SystemRoots, io |-> <<>>, err |-> NilErr]
            ELSE IF ca.err # NilErr
            THEN [roots |-> SystemRoots, io |-> <<"os.ReadFile">>,
                  err |-> Wrap("failed to read CA certificate", ca.err)]
            ELSE [roots |-> AppendCertsFromPEM(ca.data), io |-> <<"os.ReadFile">>,
                  err |-> NilErr]
    IN  Block(ReadFile(c.CACertPath))

\* BuildTLSConfig, the CACertPath block: the root set, the file operations
\* performed and the error
LoadCA(c) ==
    LET Block(ca) ==
            IF c.CACertPath = ""
            THEN [roots |-> SystemRoots, io |-> <<>>, err |-> NilErr]
            ELSE IF ca.err # NilErr
            THEN [roots |-> SystemRoots, io |-> <<"os.ReadFile">>,
                  err |-> Wrap("failed to read CA certificate", ca.err)]
            ELSE IF AppendCertsFromPEM(ca.data) = {}
            THEN [roots |-> SystemRoots, io |-> <<"os.ReadFile">>,
                  err |-> Errorf("failed to parse CA certificate")]
            ELSE [roots |-> AppendCertsFromPEM(ca.data), io |-> <<"os.ReadFile">>,
                  err |-> NilErr]
    IN  Block(ReadFile(c.CACertPath))

\* mutant: || in place of && in the client-certificate condition
LoadClient_EitherSet(c) ==
    LET Block(pair) ==
            IF ~(c.ClientCertPath # "" \/ c.ClientKeyPath # "")
            THEN [certs |-> <<>>, io |-> <<>>, err |-> NilErr]
            ELSE IF pair.err # NilErr
            THEN [certs |-> <<>>, io |-> <<"tls.LoadX509KeyPair">>,
                  err |-> Wrap("failed to load client certificate", pair.err)]
            ELSE [certs |-> <<pair.cert>>, io |-> <<"tls.LoadX509KeyPair">>, err |-> NilErr]
    IN  Block(LoadX509KeyPair(c.ClientCertPath, c.ClientKeyPath))

\* BuildTLSConfig, the client-certificate block
LoadClient(c) ==
    LET Block(pair) ==
            IF ~(c.ClientCertPath # "" /\ c.ClientKeyPath # "")
            THEN [certs |-> <<>>, io |-> <<>>, err |-> NilErr]
            ELSE IF pair.err # NilErr
            THEN [certs |-> <<>>, io |-> <<"tls.LoadX509KeyPair">>,
                  err |-> Wrap("failed to load client certificate", pair.err)]
            ELSE [certs |-> <<pair.cert>>, io |-> <<"tls.LoadX509KeyPair">>, err |-> NilErr]
    IN  Block(LoadX509KeyPair(c.ClientCertPath, c.ClientKeyPath))

\* BuildTLSConfig returns (*tls.Config, error); io lists the file operations
\* it performed, in order.
BuildTLSConfig(c) ==
    LET Assemble(base, ca, client) ==
            IF ca.err # NilErr
            THEN [cfg |-> NilTLSConfig, io |-> ca.io, err |-> ca.err]
            ELSE IF client.err # NilErr
            THEN [cfg |-> NilTLSConfig, io |-> ca.io \o client.io, err |-> client.err]
            ELSE [cfg |-> [InsecureSkipVerify |-> base.InsecureSkipVerify,
                           ServerName         |-> base.ServerName,
                           RootCAs            |-> ca.roots,
                           Certificates       |-> client.certs],
                  io  |-> ca.io \o client.io,
                  err |-> NilErr]
    IN  Assemble(NewTLSBase(c), LoadCA(c), LoadClient(c))

NotCalled == <<"not called">>

NotBuilt == [cfg |-> NilTLSConfig, io |-> <<>>, err |-> NotCalled]

(***************************************************************************)
(* TLS unit: a caller holds one *TLSConfig and calls Validate and          *)
(* BuildTLSConfig on it, each once, in either order.                       *)
(***************************************************************************)
InitTLSUnit ==
    /\ tc \in TLSConfig
    /\ vres = NotCalled
    /\ bres = NotBuilt
    /\ iolog = <<>>

\* err := tc.Validate()
CallValidate ==
    /\ vres = NotCalled
    /\ vres' = Validate(tc)
    /\ UNCHANGED <<tc, bres, iolog>>

\* cfg, err := tc.BuildTLSConfig()
CallBuildTLSConfig ==
    /\ bres = NotBuilt
    /\ bres' = BuildTLSConfig(tc)
    /\ iolog' = iolog \o BuildTLSConfig(tc).io
    /\ UNCHANGED <<tc, vres>>

(***************************************************************************)
(* Process environment (os.Getenv; an unset variable reads as "")          *)
(***************************************************************************)
EnvVars ==
    {"OTEL_SERVICE_NAME",
     "OTEL_EXPORTER_OTLP_PROTOCOL",
     "OTEL_EXPORTER_OTLP_LOGS_PROTOCOL",
     "OTEL_EXPORTER_OTLP_METRICS_PROTOCOL",
     "OTEL_EXPORTER_OTLP_TRACES_PROTOCOL",
     "OTEL_EXPORTER_OTLP_INSECURE",
     "OTEL_EXPORTER_OTLP_CERTIFICATE",
     "OTEL_EXPORTER_OTLP_CLIENT_CERTIFICATE",
     "OTEL_EXPORTER_OTLP_CLIENT_KEY",
     "OTEL_EXPORTER_OTLP_SERVER_NAME"}

EmptyEnv == [v \in EnvVars |-> ""]

\* the environments a process is started in
EnvChoices ==
    { EmptyEnv,
      ("OTEL_EXPORTER_OTLP_INSECURE" :> "true")
          @@ ("OTEL_EXPORTER_OTLP_LOGS_PROTOCOL" :> "grpc") @@ EmptyEnv,
      ("OTEL_EXPORTER_OTLP_INSECURE" :> "true")
          @@ ("OTEL_EXPORTER_OTLP_CERTIFICATE" :> "ca.pem") @@ EmptyEnv,
      ("OTEL_EXPORTER_OTLP_INSECURE" :> "false")
          @@ ("OTEL_EXPORTER_OTLP_CERTIFICATE" :> "bad.pem")
          @@ ("OTEL_EXPORTER_OTLP_PROTOCOL" :> "grpc")
          @@ ("OTEL_EXPORTER_OTLP_LOGS_PROTOCOL" :> "http") @@ EmptyEnv,
      ("OTEL_EXPORTER_OTLP_CLIENT_CERTIFICATE" :> "cert.pem")
          @@ ("OTEL_EXPORTER_OTLP_METRICS_PROTOCOL" :> "GRPC") @@ EmptyEnv,
      ("OTEL_SERVICE_NAME" :> "svc")
          @@ ("OTEL_EXPORTER_OTLP_CERTIFICATE" :> "ca.pem")
          @@ ("OTEL_EXPORTER_OTLP_CLIENT_CERTIFICATE" :> "cert.pem")
          @@ ("OTEL_EXPORTER_OTLP_CLIENT_KEY" :> "key.pem")
          @@ ("OTEL_EXPORTER_OTLP_SERVER_NAME" :> "example.com")
          @@ ("OTEL_EXPORTER_OTLP_METRICS_PROTOCOL" :> "grpc")
          @@ ("OTEL_EXPORTER_OTLP_TRACES_PROTOCOL" :> "http") @@ EmptyEnv }

Getenv(e, name) == e[name]

NewTLSConfig(e) ==
    [Insecure       |-> Getenv(e, "OTEL_EXPORTER_OTLP_INSECURE") = "true",
     CACertPath     |-> Getenv(e, "OTEL_EXPORTER_OTLP_CERTIFICATE"),
     ClientCertPath |-> Getenv(e, "OTEL_EXPORTER_OTLP_CLIENT_CERTIFICATE"),
     ClientKeyPath  |-> Getenv(e, "OTEL_EXPORTER_OTLP_CLIENT_KEY"),
     ServerName     |-> Getenv(e, "OTEL_EXPORTER_OTLP_SERVER_NAME")]

\* the per-signal names are upper case already, so strings.ToUpper keeps them
IsOtlpProtocolGrpc(e, dataType) ==
    IF Getenv(e, dataType) = "grpc"
    THEN TRUE
    ELSE Getenv(e, "OTEL_EXPORTER_OTLP_PROTOCOL") = "grpc"

(***************************************************************************)
(* Signal packages: configuration types and package-level defaults         *)
(***************************************************************************)
Kinds == {"logs", "metrics", "tracing"}

\* attribute.KeyValue
KeyValue(k, v) == [Key |-> k, Value |-> v]

\* logs and metrics: var defaultConfig, evaluated when the package is loaded
AttrDefaultConfig(e) ==
    [Attributes |-> <<KeyValue("service.name", Getenv(e, "OTEL_SERVICE_NAME")),
                      KeyValue("service.version", "v1.0.0")>>,
     TLS        |-> NilTLS]

\* time.Second; durations are counted in milliseconds
Second == 1000

\* tracing: var defaultConfig
TracingDefaultConfig ==
    [HostMetricsEnabled     |-> FALSE,
     RuntimeMetricsEnabled  |-> FALSE,
     HostMetricsInterval    |-> 2 * Second,
     RuntimeMetricsInterval |-> 2 * Second,
     TLS                    |-> NilTLS]

\* mergo.Merge(&dst, src, mergo.WithOverride) on two tracing.Config values:
\* every non-zero field of src replaces the field of dst
MergoMergeOverride(dst, src) ==
    [HostMetricsEnabled     |-> IF src.HostMetricsEnabled THEN TRUE ELSE dst.HostMetricsEnabled,
     RuntimeMetricsEnabled  |-> IF src.RuntimeMetricsEnabled THEN TRUE ELSE dst.RuntimeMetricsEnabled,
     HostMetricsInterval    |-> IF src.HostMetricsInterval # 0
                                THEN src.HostMetricsInterval ELSE dst.HostMetricsInterval,
     RuntimeMetricsInterval |-> IF src.RuntimeMetricsInterval # 0
                                THEN src.RuntimeMetricsInterval ELSE dst.RuntimeMetricsInterval,
     TLS                    |-> IF src.TLS # NilTLS THEN src.TLS ELSE dst.TLS]

(***************************************************************************)
(* The SDK as seen by Init: resource.New, the exporter constructors, and   *)
(* the instrumentation starters either succeed or return an error; which   *)
(* one is decided outside the program (ext).                               *)
(***************************************************************************)
ExtOf(res, exp, subExp, start) ==
    [resFails |-> res, expFails |-> exp, subExpFails |-> subExp, startFails |-> start]

ExtOutcomes ==
    { ExtOf(FALSE, FALSE, FALSE, FALSE),
      ExtOf(TRUE, FALSE, FALSE, FALSE),
      ExtOf(FALSE, TRUE, FALSE, FALSE),
      ExtOf(FALSE, FALSE, TRUE, FALSE),
      ExtOf(FALSE, FALSE, FALSE, TRUE) }

ErrResource == Errorf("resource: detector error")

ErrExporter == Errorf("exporter: invalid endpoint")

NoExporter == [nil |-> TRUE]

NoResource == [nil |-> TRUE]

\* what an Init body hands back to the Init action
InitResult(outcome, err, hasProvider, localConfig, tlsConfig, exporter, res, trace) ==
    [outcome |-> outcome, err |-> err, hasProvider |-> hasProvider,
     localConfig |-> localConfig, tlsConfig |-> tlsConfig,
     exporter |-> exporter, res |-> res, trace |-> trace]


\* mutant: return ctx, provider, err on a failure path
Failed_WithProvider(err, localConfig, tlsConfig, exporter, res, trace) ==
    InitResult("return", err, TRUE, localConfig, tlsConfig, exporter, res, trace)

\* return ctx, nil, err
Failed(err, localConfig, tlsConfig, exporter, res, trace) ==
    InitResult("return", err, FALSE, localConfig, tlsConfig, exporter, res, trace)

\* mutant: the empty fields of the caller's TLSConfig filled from the environment
DefaultedTLS_EnvFills(configTLS, e) ==
    IF configTLS = NilTLS THEN NewTLSConfig(e)
    ELSE [Insecure       |-> configTLS.Insecure \/ NewTLSConfig(e).Insecure,
          CACertPath     |-> IF configTLS.CACertPath # ""
                             THEN configTLS.CACertPath ELSE NewTLSConfig(e).CACertPath,
          ClientCertPath |-> IF configTLS.ClientCertPath # ""
                             THEN configTLS.ClientCertPath ELSE NewTLSConfig(e).ClientCertPath,
          ClientKeyPath  |-> IF configTLS.ClientKeyPath # ""
                             THEN configTLS.ClientKeyPath ELSE NewTLSConfig(e).ClientKeyPath,
          ServerName     |-> IF configTLS.ServerName # ""
                             THEN configTLS.ServerName ELSE NewTLSConfig(e).ServerName]

\* the TLSConfig an Init goes on with: the caller's, or the environment's
DefaultedTLS(configTLS, e) == IF configTLS = NilTLS THEN NewTLSConfig(e) ELSE configTLS

TraceDefaulted(configTLS) ==
    IF configTLS = NilTLS THEN <<"internal.NewTLSConfig">> ELSE <<>>

\* mutant: Validate() not called before BuildTLSConfig()
TLSStage_SkipValidate(configTLS, e) ==
    LET Steps(tls, b, t0) ==
            IF b.err # NilErr
            THEN [tls |-> tls, cfg |-> NilTLSConfig,
                  trace |-> t0 \o <<"BuildTLSConfig">> \o b.io,
                  err |-> Wrap("failed to build TLS config", b.err)]
            ELSE [tls |-> tls, cfg |-> b.cfg,
                  trace |-> t0 \o <<"BuildTLSConfig">> \o b.io, err |-> NilErr]
    IN  Steps(DefaultedTLS(configTLS, e), BuildTLSConfig(DefaultedTLS(configTLS, e)),
              TraceDefaulted(configTLS))

\* mutant: the BuildTLSConfig error returned as it is
TLSStage_NoWrap(configTLS, e) ==
    LET Steps(tls, verr, b, t0) ==
            IF verr # NilErr
            THEN [tls |-> tls, cfg |-> NilTLSConfig, trace |-> t0,
                  err |-> Wrap("invalid TLS configuration", verr)]
            ELSE IF b.err # NilErr
            THEN [tls |-> tls, cfg |-> NilTLSConfig,
                  trace |-> t0 \o <<"BuildTLSConfig">> \o b.io, err |-> b.err]
            ELSE [tls |-> tls, cfg |-> b.cfg,
                  trace |-> t0 \o <<"BuildTLSConfig">> \o b.io, err |-> NilErr]
    IN  Steps(DefaultedTLS(configTLS, e), Validate(DefaultedTLS(configTLS, e)),
              BuildTLSConfig(DefaultedTLS(configTLS, e)),
              TraceDefaulted(configTLS) \o <<"Validate">>)

\* The TLS steps, the same statements in logs.Init, metrics.Init and
\* tracing.Init: default from the environment when nil, Validate, BuildTLSConfig.
TLSStage(configTLS, e) ==
    LET Steps(tls, verr, b, t0) ==
            IF verr # NilErr
            THEN [tls |-> tls, cfg |-> NilTLSConfig, trace |-> t0,
                  err |-> Wrap("invalid TLS configuration", verr)]
            ELSE IF b.err # NilErr
            THEN [tls |-> tls, cfg |-> NilTLSConfig,
                  trace |-> t0 \o <<"BuildTLSConfig">> \o b.io,
                  err |-> Wrap("failed to build TLS config", b.err)]
            ELSE [tls |-> tls, cfg |-> b.cfg,
                  trace |-> t0 \o <<"BuildTLSConfig">> \o b.io, err |-> NilErr]
    IN  Steps(DefaultedTLS(configTLS, e), Validate(DefaultedTLS(configTLS, e)),
              BuildTLSConfig(DefaultedTLS(configTLS, e)),
              TraceDefaulted(configTLS) \o <<"Validate">>)

\* an exporter constructed with the given tls.Config
Exporter(grpc, cfg) ==
    [nil |-> FALSE, flavor |-> IF grpc THEN "grpc" ELSE "http", tls |-> cfg]

\* a resource carrying the given attributes
Resource(attrs) == [nil |-> FALSE, attrs |-> attrs]

\* mutant: the caller's attributes appended to the defaults
LocalAttributes_Appended(config, dc) == dc.Attributes \o config.Attributes

\* localConfig.Attributes in logs.Init and metrics.Init: a copy of the
\* defaults, replaced by the caller's list when that is not empty
LocalAttributes(config, dc) ==
    IF Len(config.Attributes) > 0 THEN config.Attributes ELSE dc.Attributes

(***************************************************************************)
(* logs.Init up to and including sdk.NewLoggerProvider                     *)
(***************************************************************************)
LogsInit(config, e, dc, ext) ==
    LET Body(attrs, s, grpc, new) ==
            IF s.err # NilErr
            THEN Failed(s.err, [Attributes |-> attrs, TLS |-> s.tls], s.cfg,
                        NoExporter, NoResource, s.trace)
            ELSE IF ext.resFails
            THEN Failed(Wrap("failed to create resource", ErrResource),
                        [Attributes |-> attrs, TLS |-> s.tls], s.cfg,
                        NoExporter, NoResource, s.trace \o <<"resource.New">>)
            ELSE IF ext.expFails
            THEN Failed(Wrap(IF grpc THEN "failed to create gRPC log exporter"
                                     ELSE "failed to create HTTP log exporter", ErrExporter),
                        [Attributes |-> attrs, TLS |-> s.tls], s.cfg,
                        NoExporter, Resource(attrs), s.trace \o <<"resource.New", new>>)
            ELSE InitResult("return", NilErr, TRUE,
                            [Attributes |-> attrs, TLS |-> s.tls], s.cfg,
                            Exporter(grpc, s.cfg), Resource(attrs),
                            s.trace \o <<"resource.New", new,
                                         "sdk.NewBatchProcessor", "sdk.NewLoggerProvider">>)
    IN  Body(LocalAttributes(config, dc),
             TLSStage(config.TLS, e),
             IsOtlpProtocolGrpc(e, "OTEL_EXPORTER_OTLP_LOGS_PROTOCOL"),
             IF IsOtlpProtocolGrpc(e, "OTEL_EXPORTER_OTLP_LOGS_PROTOCOL")
             THEN "otlploggrpc.New" ELSE "otlploghttp.New")

(***************************************************************************)
(* metrics.Init up to and including sdk.NewMeterProvider                   *)
(***************************************************************************)
MetricsInit(config, e, dc, ext) ==
    LET Body(attrs, s, grpc, new) ==
            IF s.err # NilErr
            THEN Failed(s.err, [Attributes |-> attrs, TLS |-> s.tls], s.cfg,
                        NoExporter, NoResource, s.trace)
            ELSE IF ext.resFails
            THEN Failed(Wrap("failed to create resource", ErrResource),
                        [Attributes |-> attrs, TLS |-> s.tls], s.cfg,
                        NoExporter, NoResource, s.trace \o <<"resource.New">>)
            ELSE IF ext.expFails
            THEN Failed(Wrap(IF grpc THEN "failed to create gRPC metrics exporter"
                                     ELSE "failed to create HTTP metrics exporter", ErrExporter),
                        [Attributes |-> attrs, TLS |-> s.tls], s.cfg,
                        NoExporter, Resource(attrs), s.trace \o <<"resource.New", new>>)
            ELSE InitResult("return", NilErr, TRUE,
                            [Attributes |-> attrs, TLS |-> s.tls], s.cfg,
                            Exporter(grpc, s.cfg), Resource(attrs),
                            s.trace \o <<"resource.New", new,
                                         "sdk.NewPeriodicReader", "sdk.NewMeterProvider">>)
    IN  Body(LocalAttributes(config, dc),
             TLSStage(config.TLS, e),
             IsOtlpProtocolGrpc(e, "OTEL_EXPORTER_OTLP_METRICS_PROTOCOL"),
             IF IsOtlpProtocolGrpc(e, "OTEL_EXPORTER_OTLP_METRICS_PROTOCOL")
             THEN "otlpmetricgrpc.New" ELSE "otlpmetrichttp.New")

(***************************************************************************)
(* tracing: the optional metrics pipelines.  Each ends by returning, by    *)
(* panicking, or by terminating the process (log.Fatal).                   *)
(***************************************************************************)
SubPipeline(outcome, cfg, trace) == [outcome |-> outcome, tls |-> cfg, trace |-> trace]

\* a pipeline that is not enabled
NoSubPipeline == SubPipeline("return", NilTLSConfig, <<>>)

setupHostMetrics(e, ext) ==
    LET Body(new) ==
            IF ext.subExpFails
            THEN SubPipeline("panic", NilTLSConfig, <<new>>)
            ELSE IF ext.startFails
            THEN SubPipeline("exit", NilTLSConfig, <<new, "host.Start">>)
            ELSE SubPipeline("return", NilTLSConfig, <<new, "host.Start", "provider.Shutdown">>)
    IN  Body(IF Getenv(e, "OTEL_EXPORTER_OTLP_PROTOCOL") = "grpc"
             THEN "otlpmetricgrpc.New" ELSE "otlpmetrichttp.New")

setupRuntimeMetrics(e, ext) ==
    LET Body(verr, b, new) ==
            IF verr # NilErr
            THEN SubPipeline("panic", NilTLSConfig, <<"internal.NewTLSConfig", "Validate">>)
            ELSE IF b.err # NilErr
            THEN SubPipeline("panic", NilTLSConfig,
                             <<"internal.NewTLSConfig", "Validate", "BuildTLSConfig">> \o b.io)
            ELSE IF ext.subExpFails
            THEN SubPipeline("panic", b.cfg,
                             <<"internal.NewTLSConfig", "Validate", "BuildTLSConfig">>
                                 \o b.io \o <<new>>)
            ELSE IF ext.startFails
            THEN SubPipeline("exit", b.cfg,
                             <<"internal.NewTLSConfig", "Validate", "BuildTLSConfig">>
                                 \o b.io \o <<new, "runtime.Start">>)
            ELSE SubPipeline("return", b.cfg,
                             <<"internal.NewTLSConfig", "Validate", "BuildTLSConfig">>
                                 \o b.io \o <<new, "runtime.Start">>)
    IN  Body(Validate(NewTLSConfig(e)), BuildTLSConfig(NewTLSConfig(e)),
             IF IsOtlpProtocolGrpc(e, "OTEL_EXPORTER_OTLP_METRICS_PROTOCOL")
             THEN "otlpmetricgrpc.New" ELSE "otlpmetrichttp.New")

(***************************************************************************)
(* tracing.Init up to and including trace.NewTracerProvider                *)
(***************************************************************************)
\* localConfig as Init first fills it: the defaults, and the caller's TLS
TracingLocal(config, dc) ==
    [HostMetricsEnabled     |-> dc.HostMetricsEnabled,
     HostMetricsInterval    |-> dc.HostMetricsInterval,
     RuntimeMetricsEnabled  |-> dc.RuntimeMetricsEnabled,
     RuntimeMetricsInterval |-> dc.RuntimeMetricsInterval,
     TLS                    |-> config.TLS]

TracingInit(config, e, dc, ext) ==
    LET Body(merged, s, grpc, client, host, rt) ==
            IF s.err # NilErr
            THEN Failed(s.err, [merged EXCEPT !.TLS = s.tls], s.cfg, NoExporter, NoResource,
                        <<"mergo.Merge">> \o s.trace)
            ELSE IF ext.expFails
            THEN Failed(ErrExporter, [merged EXCEPT !.TLS = s.tls], s.cfg,
                        NoExporter, NoResource,
                        <<"mergo.Merge">> \o s.trace \o <<client, "otlptrace.New">>)
            ELSE IF ext.resFails
            THEN Failed(ErrResource, [merged EXCEPT !.TLS = s.tls], s.cfg,
                        Exporter(grpc, s.cfg), NoResource,
                        <<"mergo.Merge">> \o s.trace
                            \o <<client, "otlptrace.New", "resource.New">>)
            ELSE IF host.outcome # "return"
            THEN InitResult(host.outcome, NilErr, FALSE, [merged EXCEPT !.TLS = s.tls], s.cfg,
                            Exporter(grpc, s.cfg),
                            Resource(<<KeyValue("service.version", "v1.0.0")>>),
                            <<"mergo.Merge">> \o s.trace
                                \o <<client, "otlptrace.New", "resource.New">> \o host.trace)
            ELSE IF rt.outcome # "return"
            THEN InitResult(rt.outcome, NilErr, FALSE, [merged EXCEPT !.TLS = s.tls], s.cfg,
                            Exporter(grpc, s.cfg),
                            Resource(<<KeyValue("service.version", "v1.0.0")>>),
                            <<"mergo.Merge">> \o s.trace
                                \o <<client, "otlptrace.New", "resource.New">>
                                \o host.trace \o rt.trace)
            ELSE InitResult("return", NilErr, TRUE, [merged EXCEPT !.TLS = s.tls], s.cfg,
                            Exporter(grpc, s.cfg),
                            Resource(<<KeyValue("service.version", "v1.0.0")>>),
                            <<"mergo.Merge">> \o s.trace
                                \o <<client, "otlptrace.New", "resource.New">>
                                \o host.trace \o rt.trace \o <<"trace.NewTracerProvider">>)
    IN  Body(MergoMergeOverride(TracingLocal(config, dc), config),
             TLSStage(MergoMergeOverride(TracingLocal(config, dc), config).TLS, e),
             IsOtlpProtocolGrpc(e, "OTEL_EXPORTER_OTLP_TRACES_PROTOCOL"),
             IF IsOtlpProtocolGrpc(e, "OTEL_EXPORTER_OTLP_TRACES_PROTOCOL")
             THEN "otlptracegrpc.NewClient" ELSE "otlptracehttp.NewClient",
             IF dc.HostMetricsEnabled THEN setupHostMetrics(e, ext) ELSE NoSubPipeline,
             IF dc.RuntimeMetricsEnabled THEN setupRuntimeMetrics(e, ext) ELSE NoSubPipeline)

(***************************************************************************)
(* Inputs of the Init calls                                                *)
(***************************************************************************)
TLSOf(insecure, ca, cert, key, name) ==
    [Insecure |-> insecure, CACertPath |-> ca, ClientCertPath |-> cert,
     ClientKeyPath |-> key, ServerName |-> name]

\* the TLS configurations callers pass: nil, and one of each class
CallerTLS ==
    { NilTLS,
      TLSOf(FALSE, "", "", "", ""),
      TLSOf(TRUE, "", "", "", ""),
      TLSOf(TRUE, "ca.pem", "", "", ""),
      TLSOf(TRUE, "missing.pem", "cert.pem", "", ""),
      TLSOf(FALSE, "", "cert.pem", "", ""),
      TLSOf(FALSE, "", "", "key.pem", "example.com"),
      TLSOf(FALSE, "missing.pem", "", "", ""),
      TLSOf(FALSE, "bad.pem", "cert.pem", "key.pem", ""),
      TLSOf(FALSE, "ca.pem", "", "", ""),
      TLSOf(FALSE, "ca.pem", "cert.pem", "key.pem", "example.com"),
      TLSOf(FALSE, "", "cert.pem", "other.key", ""),
      TLSOf(TRUE, "", "cert.pem", "key.pem", ""),
      TLSOf(TRUE, "", "key.pem", "cert.pem", "") }

AttrInputs == { <<>>, <<KeyValue("service.name", "app")>> }

LogsConfigs == [Attributes : AttrInputs, TLS : CallerTLS]

MetricsConfigs == [Attributes : AttrInputs, TLS : CallerTLS]

TracingConfigs ==
    [HostMetricsEnabled : BOOLEAN, RuntimeMetricsEnabled : BOOLEAN,
     HostMetricsInterval : {0}, RuntimeMetricsInterval : {0, 5 * Second},
     TLS : CallerTLS]

(***************************************************************************)
(* Goroutines.  Each one calls Init of one signal package once, with its   *)
(* own context and config, and afterwards Shutdown on the provider it got. *)
(***************************************************************************)
NProcs == 2

Procs == 1..NProcs

\* a goroutine that has not called Init yet
IdleProc(kind) ==
    [pc |-> "idle", kind |-> kind, ctx |-> "live", cancelledInCall |-> FALSE,
     config |-> [nil |-> TRUE], dc |-> [nil |-> TRUE], ext |-> [nil |-> TRUE],
     r |-> [nil |-> TRUE], provider |-> 0, handle |-> "none",
     nShut |-> 0, shutErr |-> <<"not called">>, releases |-> 0]

\* no direct run of setupHostMetrics or setupRuntimeMetrics yet
NoSub == [state |-> "none"]

\* no builder has been created yet
NoBuilder == [kind |-> "none"]

\* no ConfigValidator check has run yet
NoCheck == [check |-> "none"]

(***************************************************************************)
(* The process: a sequence of Init calls.  call is the most recent one,    *)
(* from its arguments to what it returned; global is what it left in the   *)
(* otel globals.  Providers are numbered by the call that made them.       *)
(***************************************************************************)
NoCall == [state |-> "none"]

\* a nil provider pointer
NilProvider == 0

Alive == call.state \notin {"panicked", "exited"}

Returned == call.state = "returned"

Init ==
    /\ env \in EnvChoices
    /\ defaultConfig = [k \in Kinds |->
                          IF k = "tracing" THEN TracingDefaultConfig ELSE AttrDefaultConfig(env)]
    /\ global = [k \in Kinds |-> NilProvider]
    /\ call = NoCall
    /\ nInits = 0
    /\ procs = [p \in Procs |-> IdleProc("logs")]
    /\ regLog = <<>>
    /\ sub = NoSub
    /\ builder = NoBuilder
    /\ val = NoCheck
    /\ tc = TLSOf(FALSE, "", "", "", "")
    /\ vres = NotCalled
    /\ bres = NotBuilt
    /\ iolog = <<>>

\* global.SetLoggerProvider / otel.SetMeterProvider / otel.SetTracerProvider
\* followed by otel.SetTextMapPropagator
RegisterSteps(kind) ==
    IF kind = "logs" THEN <<"global.SetLoggerProvider">>
    ELSE IF kind = "metrics" THEN <<"otel.SetMeterProvider">>
    ELSE <<"otel.SetTracerProvider", "otel.SetTextMapPropagator">>

\* the record of an Init call of the given kind whose body gave r; id is the
\* provider it made, if it made one
CallRecord(kind, config, r, id) ==
    [state    |-> IF r.outcome = "panic" THEN "panicked"
                  ELSE IF r.outcome = "exit" THEN "exited"
                  ELSE "returned",
     kind     |-> kind,
     config   |-> config,
     err      |-> r.err,
     provider |-> IF r.hasProvider THEN id ELSE NilProvider,
     localConfig |-> r.localConfig,
     tlsConfig   |-> r.tlsConfig,
     exporter |-> r.exporter,
     res      |-> r.res,
     trace    |-> IF r.hasProvider THEN r.trace \o RegisterSteps(kind) ELSE r.trace]

InitCall_RegisterOnFailure(kind, config, r) ==
    /\ Alive
    /\ nInits < MaxInits
    /\ nInits' = nInits + 1
    /\ call' = CallRecord(kind, config, r, nInits + 1)
    /\ global' = IF r.hasProvider THEN [global EXCEPT ![kind] = nInits + 1]
                 ELSE [global EXCEPT ![kind] = NilProvider]
    /\ UNCHANGED <<env, defaultConfig, tlsVars, concVars, sub, unitVars>>

\* one whole Init call: the body, then the registration when a provider was made
InitCall(kind, config, r) ==
    /\ Alive
    /\ nInits < MaxInits
    /\ nInits' = nInits + 1
    /\ call' = CallRecord(kind, config, r, nInits + 1)
    /\ global' = IF r.hasProvider THEN [global EXCEPT ![kind] = nInits + 1] ELSE global
    /\ UNCHANGED <<env, defaultConfig, tlsVars, concVars, sub, unitVars>>

\* logs.Init(ctx, config)
CallLogsInit ==
    \E config \in LogsConfigs, ext \in ExtOutcomes :
        InitCall("logs", config, LogsInit(config, env, defaultConfig["logs"], ext))

\* metrics.Init(ctx, config)
CallMetricsInit ==
    \E config \in MetricsConfigs, ext \in ExtOutcomes :
        InitCall("metrics", config, MetricsInit(config, env, defaultConfig["metrics"], ext))

\* tracing.Init(ctx, config)
CallTracingInit ==
    \E config \in TracingConfigs, ext \in ExtOutcomes :
        InitCall("tracing", config, TracingInit(config, env, defaultConfig["tracing"], ext))

Next ==
    \/ CallLogsInit
    \/ CallMetricsInit
    \/ CallTracingInit

Spec == Init /\ [][Next]_vars

(***************************************************************************)
(* The TLS unit on its own: the process state stays as constructed.        *)
(***************************************************************************)
InitTLS ==
    /\ InitTLSUnit
    /\ env = EmptyEnv
    /\ defaultConfig = [k \in Kinds |->
                          IF k = "tracing" THEN TracingDefaultConfig ELSE AttrDefaultConfig(env)]
    /\ global = [k \in Kinds |-> NilProvider]
    /\ call = NoCall
    /\ nInits = 0
    /\ procs = [p \in Procs |-> IdleProc("logs")]
    /\ regLog = <<>>
    /\ sub = NoSub
    /\ builder = NoBuilder
    /\ val = NoCheck

NextTLS ==
    \/ CallValidate /\ UNCHANGED <<initVars, concVars, sub, unitVars>>
    \/ CallBuildTLSConfig /\ UNCHANGED <<initVars, concVars, sub, unitVars>>

SpecTLS == InitTLS /\ [][NextTLS]_vars

(***************************************************************************)
(* Properties of TLSConfig.Validate and TLSConfig.BuildTLSConfig           *)
(* (checked under SpecTLS)                                                 *)
(***************************************************************************)
Validated == vres # NotCalled

Built == bres # NotBuilt

ConflictingSettings(c) == c.Insecure /\ c.CACertPath # ""

ExactlyOneClientPath(c) == (c.ClientCertPath # "") # (c.ClientKeyPath # "")

BothClientPaths(c) == c.ClientCertPath # "" /\ c.ClientKeyPath # ""

\* C2: whenever Validate has been called on a TLSConfig with Insecure=true and
\* a non-empty CACertPath, whatever its other fields, it returned the
\* conflicting-settings error.
C2_ConflictRejected ==
    (Validated /\ ConflictingSettings(tc)) => vres = ErrConflicting

\* a conflicting config that also has an incomplete client identity was validated
C2_Witness ==
    /\ Validated
    /\ ConflictingSettings(tc)
    /\ ExactlyOneClientPath(tc)
    /\ tc.ServerName # ""
    /\ vres = ErrConflicting

\* C3 as stated: whenever Validate has been called on a TLSConfig with exactly
\* one of ClientCertPath and ClientKeyPath non-empty, it returned the
\* incomplete-client-identity error.
C3_Original ==
    (Validated /\ ExactlyOneClientPath(tc)) => vres = ErrIncomplete

\* C3 as amended: with exactly one of ClientCertPath and ClientKeyPath
\* non-empty Validate always fails; the error is the incomplete-client-identity
\* one unless Insecure=true comes with a non-empty CACertPath, and then it is
\* the conflicting-settings one, which is checked first.
C3_IncompleteRejected ==
    (Validated /\ ExactlyOneClientPath(tc)) =>
        /\ vres # NilErr
        /\ ~ConflictingSettings(tc) => vres = ErrIncomplete
        /\ ConflictingSettings(tc) => vres = ErrConflicting

\* a config with a key but no certificate, and no conflict, was rejected as incomplete
C3_Witness ==
    /\ Validated
    /\ tc.ClientCertPath = ""
    /\ tc.ClientKeyPath # ""
    /\ ~ConflictingSettings(tc)
    /\ vres = ErrIncomplete

\* C4: whenever Validate has been called on a TLSConfig whose client paths are
\* both empty or both non-empty and which does not combine Insecure=true with
\* a CACertPath, it returned nil, whatever ServerName is; and as long as only
\* Validate has been called no file has been touched.
C4_ValidAccepted ==
    /\ (Validated /\ ~ExactlyOneClientPath(tc) /\ ~ConflictingSettings(tc)) => vres = NilErr
    /\ (Validated /\ ~Built) => iolog = <<>>

\* a config naming an unreadable CA file, a client pair and a server name
\* passed Validate, and nothing was read
C4_Witness ==
    /\ Validated
    /\ ~Built
    /\ tc.CACertPath = "missing.pem"
    /\ BothClientPaths(tc)
    /\ tc.ServerName # ""
    /\ vres = NilErr
    /\ iolog = <<>>

CAFile == FileSystem[tc.CACertPath]

\* C6: whenever BuildTLSConfig has been called with a non-empty CACertPath: an
\* unreadable file gave the "failed to read CA certificate" error, a readable
\* file without a PEM certificate gave the different "failed to parse CA
\* certificate" error, both without a tls.Config; and a returned tls.Config
\* has exactly the file's certificates as RootCAs.
C6_CAErrors ==
    (Built /\ tc.CACertPath # "") =>
        /\ ~CAFile.exists =>
              /\ bres.cfg = NilTLSConfig
              /\ bres.err[1] = "failed to read CA certificate"
              /\ Len(bres.err) > 1
        /\ (CAFile.exists /\ CAFile.pem # "CERTIFICATE") =>
              /\ bres.cfg = NilTLSConfig
              /\ bres.err = <<"failed to parse CA certificate">>
        /\ bres.err = NilErr =>
              /\ bres.cfg # NilTLSConfig
              /\ bres.cfg.RootCAs = {CAFile.id}
              /\ bres.cfg.RootCAs # SystemRoots

\* a CA file that holds a private key and no certificate was refused as unparseable
C6_Witness ==
    /\ Built
    /\ tc.CACertPath = "key.pem"
    /\ bres.cfg = NilTLSConfig
    /\ bres.err = <<"failed to parse CA certificate">>

LoadAttempted == \E k \in 1..Len(bres.io) : bres.io[k] = "tls.LoadX509KeyPair"

CAStepPasses == tc.CACertPath = "" \/ (CAFile.exists /\ CAFile.pem = "CERTIFICATE")

PairOnDisk == LoadX509KeyPair(tc.ClientCertPath, tc.ClientKeyPath)

Called == call.state # "none"

\* the TLSConfig an Init call is to use: the caller's, or the environment's
EffectiveTLS == IF call.config.TLS = NilTLS THEN NewTLSConfig(env) ELSE call.config.TLS

InTrace(step) == \E k \in 1..Len(call.trace) : call.trace[k] = step

FileSteps == {"os.ReadFile", "tls.LoadX509KeyPair"}

ResourceSteps == {"resource.New"}

ExporterSteps ==
    {"otlploggrpc.New", "otlploghttp.New", "otlpmetricgrpc.New", "otlpmetrichttp.New",
     "otlptracegrpc.NewClient", "otlptracehttp.NewClient", "otlptrace.New"}

ProviderSteps == {"sdk.NewLoggerProvider", "sdk.NewMeterProvider", "trace.NewTracerProvider"}

GlobalSteps ==
    {"global.SetLoggerProvider", "otel.SetMeterProvider", "otel.SetTracerProvider",
     "otel.SetTextMapPropagator"}

NoStepIn(steps) == \A k \in 1..Len(call.trace) : call.trace[k] \notin steps

\* the Init call did not register its provider: the slot of its kind does not
\* hold the provider of this call (providers are numbered by call)
NotRegistered == global[call.kind] # nInits

\* C1: in every Init call of every kind, a tls.Config handed to the exporter
\* has InsecureSkipVerify set only if the effective TLSConfig has Insecure=true;
\* with no caller TLSConfig and an empty environment the exporter gets a
\* tls.Config that verifies the peer.
C1_InsecureOnlyIfAsked ==
    Called =>
        /\ call.exporter # NoExporter =>
              /\ call.exporter.tls # NilTLSConfig
              /\ call.exporter.tls.InsecureSkipVerify => EffectiveTLS.Insecure
        /\ (call.tlsConfig # NilTLSConfig /\ call.tlsConfig.InsecureSkipVerify)
              => EffectiveTLS.Insecure
        /\ (call.exporter # NoExporter /\ call.config.TLS = NilTLS /\ env = EmptyEnv) =>
              /\ ~call.exporter.tls.InsecureSkipVerify
              /\ call.exporter.tls.RootCAs = SystemRoots

\* an Init with a nil TLSConfig in an empty environment returned a provider
\* whose exporter verifies the peer
C1_Witness ==
    /\ Returned
    /\ call.err = NilErr
    /\ call.config.TLS = NilTLS
    /\ env = EmptyEnv
    /\ call.exporter # NoExporter
    /\ ~call.exporter.tls.InsecureSkipVerify

\* C8: an Init call of any kind whose effective TLSConfig fails Validate
\* returns that error wrapped as "invalid TLS configuration", and has read no
\* certificate file, assembled no resource, constructed no exporter or
\* provider and registered nothing.
C8_InvalidTLSAborts ==
    (Called /\ Validate(EffectiveTLS) # NilErr) =>
        /\ Returned
        /\ call.err = Wrap("invalid TLS configuration", Validate(EffectiveTLS))
        /\ call.provider = NilProvider
        /\ NoStepIn(FileSteps \cup ResourceSteps \cup ExporterSteps
                      \cup ProviderSteps \cup GlobalSteps \cup {"BuildTLSConfig"})
        /\ call.tlsConfig = NilTLSConfig
        /\ call.exporter = NoExporter
        /\ call.res = NoResource
        /\ NotRegistered

\* a tracing Init given Insecure=true with a readable CA file was refused
C8_Witness ==
    /\ Returned
    /\ call.kind = "tracing"
    /\ call.config.TLS # NilTLS
    /\ call.config.TLS.Insecure
    /\ call.config.TLS.CACertPath = "ca.pem"
    /\ call.err = Wrap("invalid TLS configuration", ErrConflicting)
    /\ InTrace("Validate")

\* C9: an Init call of any kind whose effective TLSConfig passes Validate but
\* fails BuildTLSConfig returns that error wrapped as "failed to build TLS
\* config" (the cause stays in the chain), and has constructed no exporter or
\* provider and registered nothing.
C9_BuildFailureAborts ==
    (Called /\ Validate(EffectiveTLS) = NilErr /\ BuildTLSConfig(EffectiveTLS).err # NilErr) =>
        /\ Returned
        /\ call.err = Wrap("failed to build TLS config", BuildTLSConfig(EffectiveTLS).err)
        /\ call.err[1] = "failed to build TLS config"
        /\ call.provider = NilProvider
        /\ InTrace("Validate")
        /\ InTrace("BuildTLSConfig")
        /\ NoStepIn(ResourceSteps \cup ExporterSteps \cup ProviderSteps \cup GlobalSteps)
        /\ call.exporter = NoExporter
        /\ NotRegistered

\* a metrics Init whose CA file does not exist failed with the wrapped read error
C9_Witness ==
    /\ Returned
    /\ call.kind = "metrics"
    /\ call.config.TLS # NilTLS
    /\ call.config.TLS.CACertPath = "missing.pem"
    /\ call.err[1] = "failed to build TLS config"
    /\ call.err[2] = "failed to read CA certificate"
    /\ InTrace("os.ReadFile")

\* C10: an Init call of any kind that has returned gave a nil provider exactly
\* when it gave a non-nil error.
C10_ProviderXorError ==
    Returned => (call.err # NilErr <=> call.provider = NilProvider)

\* a logs Init whose exporter could not be constructed, after the TLS steps
\* and the resource succeeded, returned an error and no provider
C10_Witness ==
    /\ Returned
    /\ call.kind = "logs"
    /\ InTrace("resource.New")
    /\ InTrace("otlploghttp.New")
    /\ call.err # NilErr
    /\ call.provider = NilProvider

(***************************************************************************)
(* Transport selection (checked under Spec)                                *)
(***************************************************************************)
\* the per-signal protocol variable each Init passes to IsOtlpProtocolGrpc
SignalProtocolVar(kind) ==
    IF kind = "logs" THEN "OTEL_EXPORTER_OTLP_LOGS_PROTOCOL"
    ELSE IF kind = "metrics" THEN "OTEL_EXPORTER_OTLP_METRICS_PROTOCOL"
    ELSE "OTEL_EXPORTER_OTLP_TRACES_PROTOCOL"

\* the selection as the claim words it: the general variable counts only
\* when the per-signal one is unset
GrpcAsStated(e, kind) ==
    \/ Getenv(e, SignalProtocolVar(kind)) = "grpc"
    \/ /\ Getenv(e, SignalProtocolVar(kind)) = ""
       /\ Getenv(e, "OTEL_EXPORTER_OTLP_PROTOCOL") = "grpc"

\* C20: an Init call that constructed its exporter picked the gRPC flavor
\* exactly when the per-signal protocol variable is "grpc", or it is unset and
\* OTEL_EXPORTER_OTLP_PROTOCOL is "grpc".
C20_Original ==
    (Called /\ call.exporter # NoExporter) =>
        (call.exporter.flavor = "grpc" <=> GrpcAsStated(env, call.kind))

(***************************************************************************)
(* Defaults and overrides (checked under Spec)                             *)
(***************************************************************************)
\* the default attribute list of logs and metrics in the environment e
DefaultAttributes(e) ==
    <<KeyValue("service.name", Getenv(e, "OTEL_SERVICE_NAME")),
      KeyValue("service.version", "v1.0.0")>>

\* C17: in every logs or metrics Init call the attribute list of localConfig,
\* and of the resource once it is made, is the caller's list when that is not
\* empty and the default list (service name, service version) when it is
\* empty; never the two together.
C17_AttributesReplace ==
    (Called /\ call.kind \in {"logs", "metrics"}) =>
        /\ Len(call.config.Attributes) > 0 =>
              call.localConfig.Attributes = call.config.Attributes
        /\ Len(call.config.Attributes) = 0 =>
              call.localConfig.Attributes = DefaultAttributes(env)
        /\ call.res # NoResource => call.res.attrs = call.localConfig.Attributes

\* a metrics Init given its own service.name returned a provider whose
\* resource has that one attribute and no default next to it
C17_Witness ==
    /\ Returned
    /\ call.kind = "metrics"
    /\ call.err = NilErr
    /\ call.config.Attributes = <<KeyValue("service.name", "app")>>
    /\ call.res # NoResource
    /\ Len(call.res.attrs) = 1

\* the TLSConfig read from the environment e, variable by variable
TLSFromEnv(e) ==
    TLSOf(e["OTEL_EXPORTER_OTLP_INSECURE"] = "true",
          e["OTEL_EXPORTER_OTLP_CERTIFICATE"],
          e["OTEL_EXPORTER_OTLP_CLIENT_CERTIFICATE"],
          e["OTEL_EXPORTER_OTLP_CLIENT_KEY"],
          e["OTEL_EXPORTER_OTLP_SERVER_NAME"])

MaxShutdowns == 2

\* goroutine.id, as fmt.Sprintf("%d", i) gives it
GoroutineId(p) == <<"1", "2", "3", "4">>[p]

\* the environments the concurrent calls run in: no TLS variable at all, and
\* a complete mutual-TLS setup
ConcEnvs ==
    {e \in EnvChoices : e["OTEL_EXPORTER_OTLP_INSECURE"] = ""
                          /\ Validate(NewTLSConfig(e)) = NilErr}

ConcTLS(p) == IF p % 2 = 1 THEN NilTLS ELSE TLSOf(TRUE, "", "cert.pem", "key.pem", "")

\* the configs goroutine p may pass: its own attributes (logs, metrics), its
\* own toggles (tracing)
ConcConfigs(kind, p) ==
    IF kind = "tracing"
    THEN [HostMetricsEnabled : {p % 2 = 1}, RuntimeMetricsEnabled : {FALSE},
          HostMetricsInterval : {0}, RuntimeMetricsInterval : {0},
          TLS : {ConcTLS(p)}]
    ELSE [Attributes : {<<KeyValue("goroutine.id", GoroutineId(p))>>},
          TLS : {ConcTLS(p)}]

\* the external calls succeed, or the exporter cannot be constructed
ConcExt == {x \in ExtOutcomes : ~x.resFails /\ ~x.subExpFails /\ ~x.startFails}

\* mutant: Init merges the caller's config into the package-level defaultConfig
InitDefaultConfigWrite_Merged(kind, config, dc) ==
    IF kind = "tracing"
    THEN MergoMergeOverride(dc, config)
    ELSE [dc EXCEPT !.Attributes = IF Len(config.Attributes) > 0
                                   THEN config.Attributes ELSE @]

\* the package-level defaultConfig after Init has filled localConfig from it:
\* Init only reads it
InitDefaultConfigWrite(kind, config, dc) == dc

\* the body of Init of the given package
InitOf(kind, config, e, dc, ext) ==
    IF kind = "logs" THEN LogsInit(config, e, dc, ext)
    ELSE IF kind = "metrics" THEN MetricsInit(config, e, dc, ext)
    ELSE TracingInit(config, e, dc, ext)

\* Init is entered: localConfig is filled from defaultConfig
Start(p) ==
    /\ procs[p].pc = "idle"
    /\ \E config \in ConcConfigs(procs[p].kind, p), cancelled \in BOOLEAN :
          /\ procs' = [procs EXCEPT ![p] =
                          [@ EXCEPT !.pc = "started",
                                    !.config = config,
                                    !.ctx = IF cancelled THEN "cancelled" ELSE "live",
                                    !.dc = defaultConfig[procs[p].kind]]]
          /\ defaultConfig' = [defaultConfig EXCEPT ![procs[p].kind] =
                                  InitDefaultConfigWrite(procs[p].kind, config, @)]
    /\ UNCHANGED <<tlsVars, env, global, call, nInits, regLog, sub, unitVars>>

\* mutant: Init hands out one package-level provider, made by the first call
AfterBuild_SharedProvider(q, p, ext, r) ==
    [q EXCEPT !.pc = IF r.hasProvider THEN "built" ELSE "failed",
              !.ext = ext,
              !.r = r,
              !.provider = IF r.hasProvider THEN 1 ELSE NilProvider,
              !.handle = IF r.hasProvider /\ p = 1 THEN "running" ELSE @]

\* goroutine p (at q) after the body of Init gave r: a provider made by
\* sdk.NewLoggerProvider and its like is a new one, numbered by its goroutine
AfterBuild(q, p, ext, r) ==
    [q EXCEPT !.pc = IF r.hasProvider THEN "built" ELSE "failed",
              !.ext = ext,
              !.r = r,
              !.provider = IF r.hasProvider THEN p ELSE NilProvider,
              !.handle = IF r.hasProvider THEN "running" ELSE "none"]

\* Init from the TLS steps to the construction of the provider; ctx is handed
\* to resource.New and to the exporter constructor and not looked at otherwise
Build(p) ==
    /\ procs[p].pc = "started"
    /\ \E ext \in ConcExt :
          procs' = [procs EXCEPT ![p] =
                       AfterBuild(@, p, ext,
                              InitOf(procs[p].kind, procs[p].config, env, procs[p].dc, ext))]
    /\ UNCHANGED <<tlsVars, initVars, regLog, sub, unitVars>>

\* global.SetLoggerProvider / otel.SetMeterProvider / otel.SetTracerProvider
\* mutant: the slot is written only while it is empty
Register_FirstWins(p) ==
    /\ procs[p].pc = "built"
    /\ global' = IF global[procs[p].kind] = NilProvider
                 THEN [global EXCEPT ![procs[p].kind] = procs[p].provider]
                 ELSE global
    /\ regLog' = Append(regLog, p)
    /\ procs' = [procs EXCEPT ![p].pc = "registered",
                              ![p].r.trace = @ \o RegisterSteps(procs[p].kind)]
    /\ UNCHANGED <<tlsVars, env, defaultConfig, call, nInits, sub, unitVars>>

Register(p) ==
    /\ procs[p].pc = "built"
    /\ global' = [global EXCEPT ![procs[p].kind] = procs[p].provider]
    /\ regLog' = Append(regLog, p)
    /\ procs' = [procs EXCEPT ![p].pc = "registered",
                              ![p].r.trace = @ \o RegisterSteps(procs[p].kind)]
    /\ UNCHANGED <<tlsVars, env, defaultConfig, call, nInits, sub, unitVars>>

\* return ctx, provider, nil / return ctx, nil, err
Return(p) ==
    /\ procs[p].pc \in {"registered", "failed"}
    /\ procs' = [procs EXCEPT ![p].pc = "returned"]
    /\ UNCHANGED <<tlsVars, initVars, regLog, sub, unitVars>>

\* the caller's context is cancelled while Init is running
Cancel(p) ==
    /\ procs[p].pc \in {"started", "built", "registered"}
    /\ procs[p].ctx = "live"
    /\ procs' = [procs EXCEPT ![p].ctx = "cancelled"]
    /\ UNCHANGED <<tlsVars, initVars, regLog, sub, unitVars>>

(***************************************************************************)
(* Shutdown(ctx, provider) of each package hands on to the provider's      *)
(* Shutdown method and returns what that returns.                          *)
(***************************************************************************)
\* the error of a second Shutdown of a MeterProvider
ErrReaderShutdown == Errorf("reader is shutdown")

\* the error of a Shutdown whose last export did not get through
ErrFlush == Errorf("failed to upload: connection refused")

\* what the first Shutdown of a provider can return
ShutdownFirst == {NilErr, ErrFlush}

\* mutant: a repeated Shutdown returns nil for every provider
ShutdownAgain_Silent(kind) == {NilErr}

\* what a repeated Shutdown can return: for a MeterProvider the reader's
\* error; for a LoggerProvider and a TracerProvider what the SDK decides
ShutdownAgain(kind) ==
    IF kind = "metrics"
    THEN {ErrReaderShutdown}
    ELSE {NilErr, Errorf("provider is shutdown")}

\* the provider goroutine p holds
HandleOf(p) == procs[procs[p].provider]

\* Shutdown(ctx, provider) called by goroutine p on the provider it got from
\* Init; handle and releases are the state of that provider
Shutdown(p) ==
    /\ procs[p].pc = "returned"
    /\ procs[p].provider # NilProvider
    /\ procs[p].nShut < MaxShutdowns
    /\ \E e \in (IF HandleOf(p).handle = "running"
                 THEN ShutdownFirst ELSE ShutdownAgain(procs[p].kind)) :
          procs' = [procs EXCEPT ![procs[p].provider].handle = "shutdown",
                                 ![procs[p].provider].releases =
                                     IF HandleOf(p).handle = "running" THEN @ + 1 ELSE @,
                                 ![p].nShut = @ + 1,
                                 ![p].shutErr = e]
    /\ UNCHANGED <<tlsVars, initVars, regLog, sub, unitVars>>

InitConc ==
    /\ env \in ConcEnvs
    /\ defaultConfig = [k \in Kinds |->
                          IF k = "tracing" THEN TracingDefaultConfig ELSE AttrDefaultConfig(env)]
    /\ global = [k \in Kinds |-> NilProvider]
    /\ call = NoCall
    /\ nInits = 0
    /\ \E kind \in Kinds : procs = [p \in Procs |-> IdleProc(kind)]
    /\ regLog = <<>>
    /\ sub = NoSub
    /\ builder = NoBuilder
    /\ val = NoCheck
    /\ tc = TLSOf(FALSE, "", "", "", "")
    /\ vres = NotCalled
    /\ bres = NotBuilt
    /\ iolog = <<>>

NextConc ==
    \E p \in Procs :
        \/ Start(p)
        \/ Build(p)
        \/ Register(p)
        \/ Return(p)
        \/ Cancel(p)
        \/ Shutdown(p)

SpecConc == InitConc /\ [][NextConc]_vars

(***************************************************************************)
(* Properties of concurrent Init calls (checked under SpecConc)            *)
(***************************************************************************)
\* goroutine p is past the body of Init
BodyDone(p) == procs[p].pc \in {"built", "failed", "registered", "returned"}

\* the package-level defaultConfig of a package as it is when loaded
InitialDefaultConfig(kind) ==
    IF kind = "tracing" THEN TracingDefaultConfig ELSE AttrDefaultConfig(env)

\* the TLS setup goroutine p runs with is valid: it passes Validate and
\* BuildTLSConfig
ValidTLSSetup(p) ==
    /\ Validate(DefaultedTLS(procs[p].config.TLS, env)) = NilErr
    /\ BuildTLSConfig(DefaultedTLS(procs[p].config.TLS, env)).err = NilErr

\* resource.New and the exporter constructor succeeded for goroutine p
SinkOk(p) == ~procs[p].ext.resFails /\ ~procs[p].ext.expFails

\* C12: of the goroutines that call Init of one package concurrently, every
\* one with a valid TLS setup and working external calls gets a nil error and
\* a provider of its own; a logs or metrics provider has exactly the
\* attributes its caller passed; and a provider is running exactly until its
\* own goroutine shuts it down, whatever the others do with theirs.
C12_ConcurrentInits ==
    \A p \in Procs :
        /\ (BodyDone(p) /\ ValidTLSSetup(p) /\ SinkOk(p)) =>
              /\ procs[p].r.err = NilErr
              /\ procs[p].provider = p
              /\ \A q \in Procs \ {p} : procs[q].provider # procs[p].provider
              /\ (procs[p].kind # "tracing" /\ Len(procs[p].config.Attributes) > 0) =>
                    procs[p].r.res.attrs = procs[p].config.Attributes
        /\ procs[p].provider # NilProvider =>
              (procs[p].handle = "running" <=> procs[p].nShut = 0)

\* two goroutines got their logs providers, each with its own goroutine.id;
\* the first has shut its provider down and the second's is still running
C12_Witness ==
    /\ procs[1].kind = "logs"
    /\ procs[1].pc = "returned"
    /\ procs[2].pc = "returned"
    /\ procs[1].provider = 1
    /\ procs[2].provider = 2
    /\ procs[1].r.res.attrs = <<KeyValue("goroutine.id", "1")>>
    /\ procs[2].r.res.attrs = <<KeyValue("goroutine.id", "2")>>
    /\ regLog = <<2, 1>>
    /\ procs[1].handle = "shutdown"
    /\ procs[2].handle = "running"

\* what the body of Init gives for the inputs of goroutine p alone, with the
\* package defaults as they were when the package was loaded
OwnResult(p) ==
    InitOf(procs[p].kind, procs[p].config, env, InitialDefaultConfig(procs[p].kind),
           procs[p].ext)

\* C13: whatever Init calls have run or are running, the package-level
\* defaultConfig of every package is what it was when the package was loaded,
\* the copy each call took of it is that value, and what a call computed
\* (localConfig, tls.Config, resource, exporter, error) is what its own
\* config gives with those defaults.
C13_DefaultsUntouched ==
    /\ \A k \in Kinds : defaultConfig[k] = InitialDefaultConfig(k)
    /\ \A p \in Procs :
          /\ procs[p].pc # "idle" => procs[p].dc = InitialDefaultConfig(procs[p].kind)
          /\ BodyDone(p) =>
                [procs[p].r EXCEPT !.trace = <<>>] = [OwnResult(p) EXCEPT !.trace = <<>>]

\* two metrics Inits with attributes of their own have registered and
\* returned, the second after the first; the defaults are as they were, and
\* the second provider has nothing of the first call's attributes
C13_Witness ==
    /\ procs[1].kind = "metrics"
    /\ procs[1].pc = "returned"
    /\ procs[2].pc = "returned"
    /\ procs[1].provider = 1
    /\ procs[2].provider = 2
    /\ regLog = <<1, 2>>
    /\ procs[1].config.Attributes = <<KeyValue("goroutine.id", "1")>>
    /\ procs[2].r.res.attrs = <<KeyValue("goroutine.id", "2")>>
    /\ defaultConfig["metrics"].Attributes = DefaultAttributes(env)

\* the provider the last registration put in the slot of a package
LastRegistered == procs[regLog[Len(regLog)]].provider

\* the goroutines all run Init of the same package
ConcKind == procs[1].kind

\* C14: the global provider slot of a package holds its initial value as long
\* as no Init has registered, and otherwise exactly the provider of the Init
\* whose registration ran last; that is a provider a successful Init of that
\* package returns, also once all calls have returned; the slots of the other
\* packages are not written.
C14_LastWriterWins ==
    /\ regLog = <<>> => global[ConcKind] = NilProvider
    /\ regLog # <<>> =>
          /\ global[ConcKind] = LastRegistered
          /\ global[ConcKind] # NilProvider
          /\ procs[global[ConcKind]].r.err = NilErr
          /\ procs[global[ConcKind]].pc \in {"registered", "returned"}
    /\ \A k \in Kinds \ {ConcKind} : global[k] = NilProvider

\* two tracing Inits have returned; the one that registered second is in the slot
C14_Witness ==
    /\ ConcKind = "tracing"
    /\ procs[1].pc = "returned"
    /\ procs[2].pc = "returned"
    /\ regLog = <<2, 1>>
    /\ global["tracing"] = 1

\* C15: a goroutine whose context was cancelled before or during its Init
\* call got a non-nil error, and its Init did not write the global slot.
C15_Original ==
    \A p \in Procs :
        (procs[p].pc = "returned" /\ procs[p].ctx = "cancelled") =>
            /\ procs[p].r.err # NilErr
            /\ \A k \in 1..Len(regLog) : regLog[k] # p

SubIntervals == {2 * Second, 5 * Second, 10 * Second}

\* localConfig.TLS of the tracing.Init the pipelines are called from: the
\* caller's TLSConfig, valid and loadable, since Init has validated and
\* built it before it reaches the two call sites
SubInitTLS ==
    { TLSOf(TRUE, "", "", "", ""),
      TLSOf(FALSE, "ca.pem", "cert.pem", "key.pem", "example.com") }

\* the record of a run of a pipeline that gave r, called where localTLS is
\* the enclosing Init's localConfig.TLS
SubRecord(fn, interval, ext, localTLS, r) ==
    [state    |-> IF r.outcome = "panic" THEN "panicked"
                  ELSE IF r.outcome = "exit" THEN "exited"
                  ELSE "returned",
     fn       |-> fn,
     interval |-> interval,
     ext      |-> ext,
     localTLS |-> localTLS,
     tls      |-> r.tls,
     trace    |-> r.trace]

\* the process is still running
SubAlive == sub.state \notin {"panicked", "exited"}

\* setupHostMetrics(ctx, res, interval)
CallSetupHostMetrics ==
    /\ SubAlive
    /\ \E interval \in SubIntervals, ext \in ExtOutcomes, localTLS \in SubInitTLS :
          sub' = SubRecord("setupHostMetrics", interval, ext, localTLS,
                           setupHostMetrics(env, ext))
    /\ UNCHANGED <<tlsVars, initVars, concVars, unitVars>>

\* setupRuntimeMetrics(ctx, res, interval)
CallSetupRuntimeMetrics ==
    /\ SubAlive
    /\ \E interval \in SubIntervals, ext \in ExtOutcomes, localTLS \in SubInitTLS :
          sub' = SubRecord("setupRuntimeMetrics", interval, ext, localTLS,
                           setupRuntimeMetrics(env, ext))
    /\ UNCHANGED <<tlsVars, initVars, concVars, unitVars>>

InitSub ==
    /\ env \in EnvChoices
    /\ defaultConfig = [k \in Kinds |->
                          IF k = "tracing" THEN TracingDefaultConfig ELSE AttrDefaultConfig(env)]
    /\ global = [k \in Kinds |-> NilProvider]
    /\ call = NoCall
    /\ nInits = 0
    /\ procs = [p \in Procs |-> IdleProc("tracing")]
    /\ regLog = <<>>
    /\ sub = NoSub
    /\ builder = NoBuilder
    /\ val = NoCheck
    /\ tc = TLSOf(FALSE, "", "", "", "")
    /\ vres = NotCalled
    /\ bres = NotBuilt
    /\ iolog = <<>>

NextSub ==
    \/ CallSetupHostMetrics
    \/ CallSetupRuntimeMetrics

SpecSub == InitSub /\ [][NextSub]_vars

SetenvChoices ==
    { <<"OTEL_SERVICE_NAME", "renamed">>,
      <<"OTEL_SERVICE_NAME", "">>,
      <<"OTEL_EXPORTER_OTLP_PROTOCOL", "grpc">>,
      <<"OTEL_EXPORTER_OTLP_INSECURE", "true">>,
      <<"OTEL_EXPORTER_OTLP_SERVER_NAME", "example.com">> }

\* os.Setenv(name, value)
Setenv ==
    /\ Alive
    /\ \E nv \in SetenvChoices :
          /\ env[nv[1]] # nv[2]
          /\ env' = [env EXCEPT ![nv[1]] = nv[2]]
    /\ UNCHANGED <<tlsVars, defaultConfig, global, call, nInits, concVars, sub, unitVars>>

\* the zero config of a package
ZeroConfig(kind) ==
    IF kind = "tracing"
    THEN [HostMetricsEnabled |-> FALSE, RuntimeMetricsEnabled |-> FALSE,
          HostMetricsInterval |-> 0, RuntimeMetricsInterval |-> 0, TLS |-> NilTLS]
    ELSE [Attributes |-> <<>>, TLS |-> NilTLS]

\* Init(ctx, Config{}) of one of the packages, the external calls succeeding
CallInitDefaults ==
    \E kind \in Kinds :
        InitCall(kind, ZeroConfig(kind),
                 InitOf(kind, ZeroConfig(kind), env, defaultConfig[kind],
                        ExtOf(FALSE, FALSE, FALSE, FALSE)))

InitEnv ==
    /\ env \in {EmptyEnv} \cup {e \in EnvChoices : e["OTEL_SERVICE_NAME"] # ""}
    /\ defaultConfig = [k \in Kinds |->
                          IF k = "tracing" THEN TracingDefaultConfig ELSE AttrDefaultConfig(env)]
    /\ global = [k \in Kinds |-> NilProvider]
    /\ call = NoCall
    /\ nInits = 0
    /\ procs = [p \in Procs |-> IdleProc("logs")]
    /\ regLog = <<>>
    /\ sub = NoSub
    /\ builder = NoBuilder
    /\ val = NoCheck
    /\ tc = TLSOf(FALSE, "", "", "", "")
    /\ vres = NotCalled
    /\ bres = NotBuilt
    /\ iolog = <<>>

NextEnv ==
    \/ Setenv
    \/ CallInitDefaults

SpecEnv == InitEnv /\ [][NextEnv]_vars

\* an Init call is made in this step
InitStep == nInits' = nInits + 1

\* C19: every Init call uses the environment as it is when the call is made:
\* the transport flavor and the TLSConfig follow the protocol and TLS variables
\* of that moment, and the default service.name attribute of logs and metrics
\* is the value OTEL_SERVICE_NAME has at that moment.
C19_Original ==
    [][InitStep =>
          /\ call'.localConfig.TLS = TLSFromEnv(env)
          /\ call'.exporter # NoExporter =>
                (call'.exporter.flavor = "grpc"
                    <=> IsOtlpProtocolGrpc(env, SignalProtocolVar(call'.kind)))
          /\ (call'.kind # "tracing" /\ call'.res # NoResource) =>
                call'.res.attrs = DefaultAttributes(env)]_vars

(***************************************************************************)
(* The fluent builders (logs.LogsBuilder, metrics.MetricsBuilder,          *)
(* tracing.TracingBuilder).  builder holds the config under construction   *)
(* and, in calls, the methods called on it so far with their arguments.    *)
(***************************************************************************)
MaxCalls == 3

\* a method call on the builder: its name and its argument list
BCall(op, args) == [op |-> op, args |-> args]

\* NewBuilder() of the three packages
NewBuilder(kind) ==
    IF kind = "tracing"
    THEN [HostMetricsEnabled     |-> FALSE,
          HostMetricsInterval    |-> 2 * Second,
          RuntimeMetricsEnabled  |-> FALSE,
          RuntimeMetricsInterval |-> 2 * Second,
          TLS                    |-> NilTLS]
    ELSE [Attributes |-> <<>>, TLS |-> NilTLS]

WithAttributes_Replace(config, attrs) == [config EXCEPT !.Attributes = attrs]

\* b.config.Attributes = append(b.config.Attributes, attrs...)
WithAttributes(config, attrs) == [config EXCEPT !.Attributes = @ \o attrs]

\* b.config.TLS = tlsConfig
WithTLS(config, tlsConfig) == [config EXCEPT !.TLS = tlsConfig]

WithTLSInsecure_SetFlag(config) ==
    IF config.TLS = NilTLS
    THEN [config EXCEPT !.TLS = TLSOf(TRUE, "", "", "", "")]
    ELSE [config EXCEPT !.TLS.Insecure = TRUE]

\* b.config.TLS = &internal.TLSConfig{Insecure: true}
WithTLSInsecure(config) == [config EXCEPT !.TLS = TLSOf(TRUE, "", "", "", "")]

\* b.config.TLS = &internal.TLSConfig{...all five fields...}
WithTLSCustom(config, insecure, caCertPath, clientCertPath, clientKeyPath, serverName) ==
    [config EXCEPT !.TLS = TLSOf(insecure, caCertPath, clientCertPath,
                                 clientKeyPath, serverName)]

WithHostMetrics_AlwaysSet(config, enabled, interval) ==
    [config EXCEPT !.HostMetricsEnabled = enabled,
                   !.HostMetricsInterval = interval]

\* TracingBuilder.WithHostMetrics
WithHostMetrics(config, enabled, interval) ==
    [config EXCEPT !.HostMetricsEnabled = enabled,
                   !.HostMetricsInterval = IF interval > 0 THEN interval ELSE @]

\* TracingBuilder.WithRuntimeMetrics
WithRuntimeMetrics(config, enabled, interval) ==
    [config EXCEPT !.RuntimeMetricsEnabled = enabled,
                   !.RuntimeMetricsInterval = IF interval > 0 THEN interval ELSE @]

\* the arguments the callers of the builder pass
BuilderAttrs ==
    { <<>>,
      <<KeyValue("service.name", "app")>>,
      <<KeyValue("env", "prod"), KeyValue("service.name", "app")>> }

BuilderTLS == {NilTLS, TLSOf(FALSE, "ca.pem", "cert.pem", "key.pem", "example.com")}

BuilderCustom ==
    { <<FALSE, "ca.pem", "cert.pem", "key.pem", "example.com">>,
      <<FALSE, "", "cert.pem", "", "">>,
      <<TRUE, "", "", "", "">> }

BuilderIntervals == {0 - Second, 0, 5 * Second}

\* the builder after one more method call
Chained(op, args, config) ==
    [kind |-> builder.kind, config |-> config,
     calls |-> Append(builder.calls, BCall(op, args))]

CanChain == builder.kind # "none" /\ Len(builder.calls) < MaxCalls

CallNewBuilder ==
    /\ builder = NoBuilder
    /\ \E kind \in Kinds :
          builder' = [kind |-> kind, config |-> NewBuilder(kind), calls |-> <<>>]
    /\ UNCHANGED <<tlsVars, initVars, concVars, sub, val>>

CallWithAttributes ==
    /\ CanChain
    /\ builder.kind \in {"logs", "metrics"}
    /\ \E attrs \in BuilderAttrs :
          builder' = Chained("WithAttributes", <<attrs>>,
                             WithAttributes(builder.config, attrs))
    /\ UNCHANGED <<tlsVars, initVars, concVars, sub, val>>

CallWithTLS ==
    /\ CanChain
    /\ \E tlsConfig \in BuilderTLS :
          builder' = Chained("WithTLS", <<tlsConfig>>,
                             WithTLS(builder.config, tlsConfig))
    /\ UNCHANGED <<tlsVars, initVars, concVars, sub, val>>

CallWithTLSInsecure ==
    /\ CanChain
    /\ builder' = Chained("WithTLSInsecure", <<>>, WithTLSInsecure(builder.config))
    /\ UNCHANGED <<tlsVars, initVars, concVars, sub, val>>

CallWithTLSCustom ==
    /\ CanChain
    /\ \E a \in BuilderCustom :
          builder' = Chained("WithTLSCustom", a,
                             WithTLSCustom(builder.config, a[1], a[2], a[3], a[4], a[5]))
    /\ UNCHANGED <<tlsVars, initVars, concVars, sub, val>>

CallWithHostMetrics ==
    /\ CanChain
    /\ builder.kind = "tracing"
    /\ \E enabled \in BOOLEAN, interval \in BuilderIntervals :
          builder' = Chained("WithHostMetrics", <<enabled, interval>>,
                             WithHostMetrics(builder.config, enabled, interval))
    /\ UNCHANGED <<tlsVars, initVars, concVars, sub, val>>

CallWithRuntimeMetrics ==
    /\ CanChain
    /\ builder.kind = "tracing"
    /\ \E enabled \in BOOLEAN, interval \in BuilderIntervals :
          builder' = Chained("WithRuntimeMetrics", <<enabled, interval>>,
                             WithRuntimeMetrics(builder.config, enabled, interval))
    /\ UNCHANGED <<tlsVars, initVars, concVars, sub, val>>

InitBuilder ==
    /\ tc = TLSOf(FALSE, "", "", "", "")
    /\ vres = NotCalled
    /\ bres = NotBuilt
    /\ iolog = <<>>
    /\ env = EmptyEnv
    /\ defaultConfig = [k \in Kinds |-> IF k = "tracing" THEN TracingDefaultConfig
                                        ELSE AttrDefaultConfig(env)]
    /\ global = [k \in Kinds |-> NilProvider]
    /\ call = NoCall
    /\ nInits = 0
    /\ procs = [p \in Procs |-> IdleProc("logs")]
    /\ regLog = <<>>
    /\ sub = NoSub
    /\ builder = NoBuilder
    /\ val = NoCheck

NextBuilder ==
    \/ CallNewBuilder
    \/ CallWithAttributes
    \/ CallWithTLS
    \/ CallWithTLSInsecure
    \/ CallWithTLSCustom
    \/ CallWithHostMetrics
    \/ CallWithRuntimeMetrics

SpecBuilder == InitBuilder /\ [][NextBuilder]_vars

(***************************************************************************)
(* Claims about the builders                                               *)
(***************************************************************************)
RECURSIVE PassedAttributes(_)
\* the attributes passed to WithAttributes by the calls, in call order
PassedAttributes(calls) ==
    IF calls = <<>> THEN <<>>
    ELSE LET c == calls[Len(calls)]
             before == PassedAttributes(SubSeq(calls, 1, Len(calls) - 1))
         IN IF c.op = "WithAttributes" THEN before \o c.args[1] ELSE before

TLSOps == {"WithTLS", "WithTLSInsecure", "WithTLSCustom"}

\* the TLS config a TLS method call was asked to install
TLSGiven(c) ==
    IF c.op = "WithTLS" THEN c.args[1]
    ELSE IF c.op = "WithTLSInsecure"
         THEN [Insecure |-> TRUE, CACertPath |-> "", ClientCertPath |-> "",
               ClientKeyPath |-> "", ServerName |-> ""]
         ELSE [Insecure |-> c.args[1], CACertPath |-> c.args[2],
               ClientCertPath |-> c.args[3], ClientKeyPath |-> c.args[4],
               ServerName |-> c.args[5]]

RECURSIVE LastTLSGiven(_)
\* the TLS config given by the last TLS method call, nil when there was none
LastTLSGiven(calls) ==
    IF calls = <<>> THEN NilTLS
    ELSE LET c == calls[Len(calls)]
         IN IF c.op \in TLSOps THEN TLSGiven(c)
            ELSE LastTLSGiven(SubSeq(calls, 1, Len(calls) - 1))

\* C21: after any sequence of builder calls, the attribute list of a logs or
\* metrics builder is the concatenation, in call order and with duplicates
\* kept, of the attributes passed to WithAttributes; TLS calls in between
\* do not change it.
C21_AttributesAccumulate ==
    builder.kind \in {"logs", "metrics"} =>
        builder.config.Attributes = PassedAttributes(builder.calls)

\* WithAttributes(a).WithAttributes(b, a).WithTLSInsecure() on a logs builder:
\* the list is [a, b, a] and the TLS config is insecure
C21_Witness ==
    /\ builder.kind = "logs"
    /\ Len(builder.calls) = 3
    /\ builder.calls[1] = BCall("WithAttributes", << <<KeyValue("service.name", "app")>> >>)
    /\ builder.calls[2].op = "WithAttributes"
    /\ builder.calls[3].op = "WithTLSInsecure"
    /\ builder.config.Attributes = <<KeyValue("service.name", "app"),
                                     KeyValue("env", "prod"),
                                     KeyValue("service.name", "app")>>
    /\ builder.config.TLS.Insecure

\* C22: after any sequence of builder calls the TLS config of the builder is
\* exactly the one given by the last of WithTLS, WithTLSInsecure and
\* WithTLSCustom (nil before the first), with no field kept from an earlier
\* call.
C22_TLSReplaced ==
    builder.kind # "none" => builder.config.TLS = LastTLSGiven(builder.calls)

\* WithTLSCustom(false, ca, cert, key, name) followed by WithTLSInsecure():
\* insecure, all paths and the server name empty
C22_Witness ==
    /\ builder.kind = "tracing"
    /\ Len(builder.calls) = 2
    /\ builder.calls[1] = BCall("WithTLSCustom",
                                <<FALSE, "ca.pem", "cert.pem", "key.pem", "example.com">>)
    /\ builder.calls[2].op = "WithTLSInsecure"
    /\ builder.config.TLS = TLSOf(TRUE, "", "", "", "")

\* the step is a call of the method op on a tracing builder
MethodStep(op) ==
    /\ builder.kind = "tracing"
    /\ builder'.kind = "tracing"
    /\ Len(builder'.calls) = Len(builder.calls) + 1
    /\ builder'.calls[Len(builder'.calls)].op = op

\* what a WithHostMetrics / WithRuntimeMetrics call with arguments args must
\* leave in the toggle and interval named, given what they were before
ToggleSet(args, toggle, interval, before, after) ==
    /\ after[toggle] = args[1]
    /\ after[interval] = IF args[2] > 0 THEN args[2] ELSE before[interval]
    /\ \A f \in DOMAIN before \ {toggle, interval} : after[f] = before[f]

\* C23: WithHostMetrics(enabled, interval) and WithRuntimeMetrics(enabled,
\* interval) set their toggle to enabled, set their interval to a positive
\* interval and keep the previous one (2 seconds on a new builder) for a
\* zero or negative one, and leave the other metric's toggle and interval
\* and the TLS config as they were.
C23_MetricsToggles ==
    [][ /\ (builder = NoBuilder /\ builder'.kind = "tracing") =>
              /\ builder'.config.HostMetricsInterval = 2 * Second
              /\ builder'.config.RuntimeMetricsInterval = 2 * Second
        /\ MethodStep("WithHostMetrics") =>
              ToggleSet(builder'.calls[Len(builder'.calls)].args,
                        "HostMetricsEnabled", "HostMetricsInterval",
                        builder.config, builder'.config)
        /\ MethodStep("WithRuntimeMetrics") =>
              ToggleSet(builder'.calls[Len(builder'.calls)].args,
                        "RuntimeMetricsEnabled", "RuntimeMetricsInterval",
                        builder.config, builder'.config)
      ]_vars

\* WithHostMetrics(true, 5s), then WithTLSInsecure(), then
\* WithHostMetrics(false, 0): disabled, the interval still 5 seconds, the
\* runtime interval still the initial 2 seconds
C23_Witness ==
    /\ builder.kind = "tracing"
    /\ Len(builder.calls) = 3
    /\ builder.calls[1] = BCall("WithHostMetrics", <<TRUE, 5 * Second>>)
    /\ builder.calls[2].op = "WithTLSInsecure"
    /\ builder.calls[3] = BCall("WithHostMetrics", <<FALSE, 0>>)
    /\ builder.config.HostMetricsEnabled = FALSE
    /\ builder.config.HostMetricsInterval = 5 * Second
    /\ builder.config.RuntimeMetricsInterval = 2 * Second
    /\ builder.config.TLS = TLSOf(TRUE, "", "", "", "")

(***************************************************************************)
(* internal.ConfigValidator.  val is the most recent check: which method,  *)
(* its argument, and the error value it returned.                          *)
(***************************************************************************)

\* a time.Duration (int64 nanoseconds) as whole seconds, rounded down, and
\* the nanoseconds above them (0..999999999); the order of durations is
\* the order of these pairs
Duration(sec, nsec) == [sec |-> sec, nsec |-> nsec]

\* a <= b and a > b on time.Duration
DurationLeq(a, b) == a.sec < b.sec \/ (a.sec = b.sec /\ a.nsec <= b.nsec)

DurationGt(a, b) == ~DurationLeq(a, b)

\* time.Hour multiplied by n
Hours(n) == Duration(3600 * n, 0)

\* error values by their dynamic type: nil, *ValidationError, and the plain
\* error fmt.Errorf / errors.New give
NoError == [type |-> "nil"]

ValidationError(field, value, err) ==
    [type |-> "*ValidationError", Field |-> field, Value |-> value, Err |-> err]

PlainError(err) == [type |-> "*errors.errorString", msg |-> err]

\* url.Parse on the endpoints the checks are given
UrlParse(endpoint) ==
    CASE endpoint = "http://localhost:4318"  -> [err |-> NilErr, Scheme |-> "http"]
      [] endpoint = "https://example.com:443" -> [err |-> NilErr, Scheme |-> "https"]
      [] endpoint = "grpc://localhost:4317"  -> [err |-> NilErr, Scheme |-> "grpc"]
      [] endpoint = "grpcs://localhost:4317" -> [err |-> NilErr, Scheme |-> "grpcs"]
      [] endpoint = "ftp://example.com"      -> [err |-> NilErr, Scheme |-> "ftp"]
      [] endpoint = "not a url"              -> [err |-> NilErr, Scheme |-> ""]
      [] endpoint = "http://[::1"            -> [err |-> Errorf("parse: missing ']' in host"),
                                                 Scheme |-> ""]
      [] OTHER                               -> [err |-> Errorf("parse: missing protocol scheme"),
                                                 Scheme |-> ""]

\* ConfigValidator.ValidateEndpoint
ValidateEndpoint(endpoint) ==
    IF endpoint = ""
    THEN ValidationError("endpoint", endpoint, Errorf("endpoint is required"))
    ELSE IF UrlParse(endpoint).err # NilErr
    THEN ValidationError("endpoint", endpoint,
                         Wrap("invalid URL format", UrlParse(endpoint).err))
    ELSE IF UrlParse(endpoint).Scheme \notin {"http", "https", "grpc", "grpcs"}
    THEN ValidationError("endpoint", endpoint,
                         Errorf("endpoint must use http, https, grpc, or grpcs scheme"))
    ELSE NoError

ValidateInterval_Strict(interval) ==
    IF DurationLeq(interval, Duration(0, 0))
    THEN ValidationError("interval", interval, Errorf("interval must be positive"))
    ELSE IF DurationLeq(Hours(24), interval)
    THEN ValidationError("interval", interval, Errorf("interval must not exceed 24 hours"))
    ELSE NoError

\* ConfigValidator.ValidateInterval
ValidateInterval(interval) ==
    IF DurationLeq(interval, Duration(0, 0))
    THEN ValidationError("interval", interval, Errorf("interval must be positive"))
    ELSE IF DurationGt(interval, Hours(24))
    THEN ValidationError("interval", interval, Errorf("interval must not exceed 24 hours"))
    ELSE NoError

\* ConfigValidator.ValidateTLSConfig: a non-nil config is handed to
\* tlsConfig.Validate(), whose error is returned as it is
ValidateTLSConfig(tlsConfig) ==
    IF tlsConfig = NilTLS
    THEN ValidationError("tls", tlsConfig, Errorf("TLS configuration cannot be nil"))
    ELSE IF Validate(tlsConfig) = NilErr THEN NoError
    ELSE PlainError(Validate(tlsConfig))

\* a string of n bytes
StringOfLen(n) == [i \in 1..n |-> "x"]

\* ConfigValidator.ValidateServiceName; a service name is its bytes
ValidateServiceName(serviceName) ==
    IF serviceName = <<>>
    THEN ValidationError("service_name", serviceName, Errorf("service name is required"))
    ELSE IF Len(serviceName) > 100
    THEN ValidationError("service_name", serviceName,
                         Errorf("service name exceeds maximum length of 100 characters"))
    ELSE NoError

\* the arguments the checks are called with
ValidatorEndpoints ==
    {"", "http://localhost:4318", "https://example.com:443", "grpc://localhost:4317",
     "grpcs://localhost:4317", "ftp://example.com", "not a url", "http://[::1", ":4318"}

ValidatorIntervals ==
    {Duration(s, n) : s \in {0 - 86401, 0 - 5, 0 - 1, 0, 1, 10, 86399, 86400, 86401,
                             90000, 172800},
                      n \in {0, 1, 999999999}}

ValidatorNames == {StringOfLen(n) : n \in {0, 1, 11, 100, 101, 150}}

Checked(check, arg, err) == [check |-> check, arg |-> arg, err |-> err]

CallValidateEndpoint ==
    /\ \E endpoint \in ValidatorEndpoints :
          val' = Checked("ValidateEndpoint", endpoint, ValidateEndpoint(endpoint))
    /\ UNCHANGED <<tlsVars, initVars, concVars, sub, builder>>

CallValidateInterval ==
    /\ \E interval \in ValidatorIntervals :
          val' = Checked("ValidateInterval", interval, ValidateInterval(interval))
    /\ UNCHANGED <<tlsVars, initVars, concVars, sub, builder>>

CallValidateTLSConfig ==
    /\ \E tlsConfig \in TLSConfig \cup {NilTLS} :
          val' = Checked("ValidateTLSConfig", tlsConfig, ValidateTLSConfig(tlsConfig))
    /\ UNCHANGED <<tlsVars, initVars, concVars, sub, builder>>

CallValidateServiceName ==
    /\ \E serviceName \in ValidatorNames :
          val' = Checked("ValidateServiceName", serviceName,
                         ValidateServiceName(serviceName))
    /\ UNCHANGED <<tlsVars, initVars, concVars, sub, builder>>

InitVal ==
    /\ tc = TLSOf(FALSE, "", "", "", "")
    /\ vres = NotCalled
    /\ bres = NotBuilt
    /\ iolog = <<>>
    /\ env = EmptyEnv
    /\ defaultConfig = [k \in Kinds |-> IF k = "tracing" THEN TracingDefaultConfig
                                        ELSE AttrDefaultConfig(env)]
    /\ global = [k \in Kinds |-> NilProvider]
    /\ call = NoCall
    /\ nInits = 0
    /\ procs = [p \in Procs |-> IdleProc("logs")]
    /\ regLog = <<>>
    /\ sub = NoSub
    /\ builder = NoBuilder
    /\ val = NoCheck

NextVal ==
    \/ CallValidateEndpoint
    \/ CallValidateInterval
    \/ CallValidateTLSConfig
    \/ CallValidateServiceName

SpecVal == InitVal /\ [][NextVal]_vars

(***************************************************************************)
(* Claims about ConfigValidator                                            *)
(***************************************************************************)

\* the duration is positive and at most 24 hours (86400 seconds)
WithinDay(d) ==
    /\ d.sec > 0 \/ (d.sec = 0 /\ d.nsec > 0)
    /\ d.sec < 86400 \/ (d.sec = 86400 /\ d.nsec = 0)

\* C25: ValidateInterval accepts a duration exactly when it is positive and
\* at most 24 hours: zero, negative durations and durations above 24 hours
\* are rejected, 1 nanosecond and exactly 24 hours are accepted.
C25_IntervalRange ==
    val.check = "ValidateInterval" =>
        ((val.err = NoError) <=> WithinDay(val.arg))

\* ValidateInterval accepted exactly 24 hours
C25_Witness ==
    /\ val.check = "ValidateInterval"
    /\ val.arg = Hours(24)
    /\ val.err = NoError

\* C26: every failing ConfigValidator check returns a *ValidationError that
\* carries the field name, the value checked and a non-nil cause.
C26_Original ==
    (val.check # "none" /\ val.err # NoError) =>
        /\ val.err.type = "*ValidationError"
        /\ val.err.Field \in {"endpoint", "interval", "tls", "service_name"}
        /\ val.err.Value = val.arg
        /\ val.err.Err # NilErr

(***************************************************************************)
(* Claims about the metrics pipelines of tracing.Init                      *)
(***************************************************************************)

\* C24: a tracing.Init that returns without error has started host-metrics
\* collection exactly when the config passed to it has HostMetricsEnabled
\* set, and runtime-metrics collection exactly when it has
\* RuntimeMetricsEnabled set.
C24_Original ==
    (Called /\ call.kind = "tracing" /\ Returned /\ call.err = NilErr) =>
        /\ InTrace("host.Start") <=> call.config.HostMetricsEnabled
        /\ InTrace("runtime.Start") <=> call.config.RuntimeMetricsEnabled

\* the runtime-metrics exporter has been constructed
RuntimeExporterBuilt ==
    /\ sub.state # "none"
    /\ sub.fn = "setupRuntimeMetrics"
    /\ \E k \in 1..Len(sub.trace) :
          sub.trace[k] \in {"otlpmetricgrpc.New", "otlpmetrichttp.New"}
    /\ ~sub.ext.subExpFails

FailedStep ==
    IF ~NoStepIn(ExporterSteps \ {"otlptracegrpc.NewClient", "otlptracehttp.NewClient"})
           /\ call.exporter = NoExporter
    THEN "exporter construction"
    ELSE IF ~NoStepIn(ResourceSteps) /\ call.res = NoResource
    THEN "resource assembly"
    ELSE IF InTrace("BuildTLSConfig") THEN "TLS materialization"
    ELSE "TLS validation"

\* the step an error names in the message Init put in front of the cause
StepNamed(err) ==
    IF err[1] = "invalid TLS configuration" THEN "TLS validation"
    ELSE IF err[1] = "failed to build TLS config" THEN "TLS materialization"
    ELSE IF err[1] = "failed to create resource" THEN "resource assembly"
    ELSE IF err[1] \in {"failed to create gRPC log exporter",
                        "failed to create HTTP log exporter",
                        "failed to create gRPC metrics exporter",
                        "failed to create HTTP metrics exporter",
                        "failed to create gRPC trace exporter",
                        "failed to create HTTP trace exporter"}
    THEN "exporter construction"
    ELSE "none"

\* C27: for every signal kind, the error of an Init that failed in TLS
\* validation, TLS materialization, resource assembly or exporter
\* construction names the step that failed.
C27_Original ==
    (Called /\ Returned /\ call.err # NilErr) => StepNamed(call.err) = FailedStep

\* the step that writes the provider slot of a signal kind
SlotStep(kind) ==
    IF kind = "logs" THEN "global.SetLoggerProvider"
    ELSE IF kind = "metrics" THEN "otel.SetMeterProvider"
    ELSE "otel.SetTracerProvider"

\* the steps that have to succeed before a provider is registered
BuildSteps ==
    {"Validate", "BuildTLSConfig"} \cup FileSteps \cup ResourceSteps
        \cup ExporterSteps \cup ProviderSteps

\* in the trace, the slot of the kind is written exactly once, after a TLS
\* validation, a TLS materialization, a resource, an exporter and a provider
\* step, and after every other step of those kinds
WrittenOnceAtEnd(trace, kind) ==
    \E k \in 1..Len(trace) :
        /\ trace[k] = SlotStep(kind)
        /\ \A j \in 1..Len(trace) : trace[j] = SlotStep(kind) => j = k
        /\ \A j \in 1..Len(trace) : trace[j] \in BuildSteps => j < k
        /\ \E j \in 1..(k - 1) : trace[j] = "Validate"
        /\ \E j \in 1..(k - 1) : trace[j] = "BuildTLSConfig"
        /\ \E j \in 1..(k - 1) : trace[j] \in ResourceSteps
        /\ \E j \in 1..(k - 1) : trace[j] \in ExporterSteps
        /\ \E j \in 1..(k - 1) : trace[j] \in ProviderSteps

\* C28: an Init call that fails leaves the provider slot of every signal kind
\* as it was before the call; an Init call that succeeds writes the slot of
\* its own kind exactly once, with its new provider, after TLS validation,
\* TLS materialization, resource assembly, exporter construction and provider
\* construction, and leaves the slots of the other kinds alone.
C28_RegistrationLast ==
    [][InitStep =>
          /\ call'.provider = NilProvider =>
                /\ global' = global
                /\ \A j \in 1..Len(call'.trace) : call'.trace[j] \notin GlobalSteps
          /\ call'.provider # NilProvider =>
                /\ call'.err = NilErr
                /\ call'.provider \notin {global[k] : k \in Kinds}
                /\ global' = [global EXCEPT ![call'.kind] = call'.provider]
                /\ WrittenOnceAtEnd(call'.trace, call'.kind)
      ]_vars

\* a tracing Init registered its provider, and the tracing Init after it
\* failed building its exporter: the slot still holds the first provider
C28_Witness ==
    /\ nInits = 2
    /\ Returned
    /\ call.kind = "tracing"
    /\ call.err = ErrExporter
    /\ call.provider = NilProvider
    /\ global["tracing"] = 1

(***************************************************************************)
(* One *TLSConfig shared by several users: tc is the object, and the       *)
(* callers run Validate and BuildTLSConfig on it and hand it, through      *)
(* NewBuilder().WithTLS(tc).Build(ctx), to Init of the three packages.     *)
(* localConfig.TLS of such an Init is the same pointer, so what the call   *)
(* leaves in localConfig.TLS is what it leaves in the shared object.       *)
(***************************************************************************)

\* b.Build(ctx): return Init(ctx, b.config)
BuilderBuild(kind, config, e, dc, ext) == InitOf(kind, config, e, dc, ext)

InitShared_FillsInPlace(kind, config, r) ==
    /\ Alive
    /\ nInits < MaxInits
    /\ nInits' = nInits + 1
    /\ call' = CallRecord(kind, config, r, nInits + 1)
    /\ global' = IF r.hasProvider THEN [global EXCEPT ![kind] = nInits + 1] ELSE global
    /\ tc' = DefaultedTLS_EnvFills(r.localConfig.TLS, env)
    /\ UNCHANGED <<vres, bres, iolog, env, defaultConfig, concVars, sub, unitVars>>

\* one whole Init call on a config whose TLS field points to tc
InitShared(kind, config, r) ==
    /\ Alive
    /\ nInits < MaxInits
    /\ nInits' = nInits + 1
    /\ call' = CallRecord(kind, config, r, nInits + 1)
    /\ global' = IF r.hasProvider THEN [global EXCEPT ![kind] = nInits + 1] ELSE global
    /\ tc' = r.localConfig.TLS
    /\ UNCHANGED <<vres, bres, iolog, env, defaultConfig, concVars, sub, unitVars>>

\* NewBuilder().WithTLS(tc).Build(ctx) of one of the packages
CallBuildShared ==
    \E kind \in Kinds, ext \in ExtOutcomes :
        InitShared(kind, WithTLS(NewBuilder(kind), tc),
                   BuilderBuild(kind, WithTLS(NewBuilder(kind), tc), env,
                                defaultConfig[kind], ext))

InitSharedTLS ==
    /\ tc \in CallerTLS \ {NilTLS}
    /\ vres = NotCalled
    /\ bres = NotBuilt
    /\ iolog = <<>>
    /\ env \in ConcEnvs
    /\ defaultConfig = [k \in Kinds |-> IF k = "tracing" THEN TracingDefaultConfig
                                        ELSE AttrDefaultConfig(env)]
    /\ global = [k \in Kinds |-> NilProvider]
    /\ call = NoCall
    /\ nInits = 0
    /\ procs = [p \in Procs |-> IdleProc("logs")]
    /\ regLog = <<>>
    /\ sub = NoSub
    /\ builder = NoBuilder
    /\ val = NoCheck

NextShared ==
    \/ CallValidate /\ UNCHANGED <<initVars, concVars, sub, unitVars>>
    \/ CallBuildTLSConfig /\ UNCHANGED <<initVars, concVars, sub, unitVars>>
    \/ CallBuildShared

SpecShared == InitSharedTLS /\ [][NextShared]_vars

\* C29: no step of Validate, BuildTLSConfig, Init or a builder's Build changes
\* a field of the TLSConfig it is given, so every user of a shared TLSConfig
\* reads the same values.
C29_TLSConfigImmutable ==
    [][tc' = tc]_vars

\* a mutual-TLS config has been validated, built, and used by two Inits of
\* different kinds, the second through an environment that sets TLS
\* variables of its own; both read the caller's values
C29_Witness ==
    /\ nInits = 2
    /\ Validated
    /\ Built
    /\ tc = TLSOf(FALSE, "ca.pem", "cert.pem", "key.pem", "example.com")
    /\ call.kind = "tracing"
    /\ global["logs"] = 1
    /\ call.config.TLS = tc
    /\ call.localConfig.TLS = tc
    /\ Getenv(env, "OTEL_EXPORTER_OTLP_CLIENT_CERTIFICATE") # ""

====
